---- MODULE Spec2Model ----
(***************************************************************************)
(* Verification model of the 6DoF arm firmware sketches.                   *)
(*                                                                         *)
(*  - the non-blocking sketch   (src/unnamed/part_003, lines 1-565):       *)
(*    variables without prefix, specifications Spec, LimitSpec, FairSpec;  *)
(*  - the blocking sketch       (src/code/code.ino):                       *)
(*    variables prefixed b_, specification BlockingSpec;                   *)
(*  - the SET_SPEED sketch      (src/unnamed/part_003, lines 567-1116):    *)
(*    variables prefixed s_, specification SpeedSpec.                      *)
(*                                                                         *)
(* Command lines are TLA+ strings; a character is a string of length one   *)
(* and the Arduino String methods are modelled on them character by        *)
(* character.  The target is an AVR board (Uno / Mega), so int is 16 bits. *)
(***************************************************************************)
EXTENDS Integers, Sequences, FiniteSets, TLC

(***************************************************************************)
(* config.h                                                                *)
(***************************************************************************)
Joints == 0..5

JOINT_MIN == [j \in Joints |-> <<0, 30, 0, 0, 0, 90>>[j + 1]]

JOINT_MAX == [j \in Joints |-> <<180, 150, 180, 180, 180, 180>>[j + 1]]

HOME_POSITIONS == [j \in Joints |-> <<92, 85, 45, 108, 80, 152>>[j + 1]]

CMD_HOME == "HOME"

CMD_STOP == "STOP"

CMD_STATUS == "STATUS"

CMD_RECORD_START == "RECORD_START"

CMD_RECORD_STOP == "RECORD_STOP"

CMD_PLAY_SEQUENCE == "PLAY_SEQUENCE"

CMD_LIST_SEQUENCES == "LIST_SEQUENCES"

CMD_DELETE_SEQUENCE == "DELETE_SEQUENCE"

CMD_JOINT_PREFIX == "J"

RESP_OK == "OK:"

RESP_ERROR == "ERROR:"

RESP_SEQUENCE == "SEQUENCE:"

(***************************************************************************)
(* Constants of the non-blocking sketch                                    *)
(***************************************************************************)
MOVEMENT_INTERVAL == 25

MAX_SEQUENCE_LENGTH == 15

MAX_SEQUENCES == 2

SEQUENCE_NAME_LENGTH == 16

(***************************************************************************)
(* Arduino String and <ctype.h> / <stdlib.h> helpers                       *)
(***************************************************************************)
Min(a, b) == IF a < b THEN a ELSE b

\* s.charAt(i), 0-based; the empty string when i is out of range
charAt(s, i) == IF i >= 0 /\ i < Len(s) THEN SubSeq(s, i + 1, i + 1) ELSE ""

isDigit(c) == c \in {"0", "1", "2", "3", "4", "5", "6", "7", "8", "9"}

isSpace(c) == c = " "

DigitValue(c) == CHOOSE d \in 0..9 : charAt("0123456789", d) = c

\* two's complement truncation of a long to the 16-bit int of the AVR build
IntWrap16(v) == ((v + 32768) % 65536) - 32768

RECURSIVE indexOfFrom(_, _, _)
\* String::indexOf(ch, fromIndex): -1 when absent
indexOfFrom(s, ch, from) ==
    IF from >= Len(s) THEN -1
    ELSE IF charAt(s, from) = ch THEN from
    ELSE indexOfFrom(s, ch, from + 1)

indexOf(s, ch) == indexOfFrom(s, ch, 0)

\* String::substring(left, right): characters left .. right-1, 0-based
substring(s, left, right) ==
    LET l == Min(left, right)
        r0 == IF left > right THEN left ELSE right
        r == Min(r0, Len(s))
    IN  IF l >= Len(s) THEN "" ELSE SubSeq(s, l + 1, r)

substringFrom(s, left) == substring(s, left, Len(s))

startsWith(s, p) == Len(s) >= Len(p) /\ SubSeq(s, 1, Len(p)) = p

RECURSIVE trimLeft(_)
trimLeft(s) == IF Len(s) > 0 /\ isSpace(charAt(s, 0)) THEN trimLeft(Tail(s)) ELSE s

RECURSIVE trimRight(_)
trimRight(s) ==
    IF Len(s) > 0 /\ isSpace(charAt(s, Len(s) - 1))
    THEN trimRight(SubSeq(s, 1, Len(s) - 1))
    ELSE s

\* String::trim()
trim(s) == trimRight(trimLeft(s))

toUpperChar(c) ==
    LET lower == "abcdefghijklmnopqrstuvwxyz"
        upper == "ABCDEFGHIJKLMNOPQRSTUVWXYZ"
        hits == {i \in 0..25 : charAt(lower, i) = c}
    IN  IF hits = {} THEN c ELSE charAt(upper, CHOOSE i \in hits : TRUE)

RECURSIVE toUpperCase(_)
\* String::toUpperCase()
toUpperCase(s) ==
    IF Len(s) = 0 THEN "" ELSE toUpperChar(charAt(s, 0)) \o toUpperCase(Tail(s))

RECURSIVE atolDigits(_, _, _)
\* avr-libc atol accumulates the digits in a 32-bit long without an overflow
\* check and the result is then cut to 16 bits; as 2^16 divides 2^32 the low
\* 16 bits are the same when the accumulator is kept modulo 2^16 throughout.
atolDigits(s, i, acc) ==
    IF i < Len(s) /\ isDigit(charAt(s, i))
    THEN atolDigits(s, i + 1, (acc * 10 + DigitValue(charAt(s, i))) % 65536)
    ELSE acc

\* atol: leading white space, an optional sign, then digits up to the first
\* character that is not a digit
atol(s) ==
    LET t == trimLeft(s)
        neg == charAt(t, 0) = "-"
        from == IF charAt(t, 0) \in {"-", "+"} THEN 1 ELSE 0
        mag == atolDigits(t, from, 0)
    IN  IF neg THEN 0 - mag ELSE mag

\* String::toInt() assigned to an int
toInt(s) == IntWrap16(atol(s))

\* String::toCharArray(buf, bufsize): at most bufsize-1 characters are kept
toCharArray(s, bufsize) == SubSeq(s, 1, Min(Len(s), bufsize - 1))

(***************************************************************************)
(* Serial output: one record per printed line                              *)
(***************************************************************************)
Line(prefix, text, args) == [prefix |-> prefix, text |-> text, args |-> args]

ErrorLine(text) == Line(RESP_ERROR, text, <<>>)

OkLine(text, args) == Line(RESP_OK, text, args)

(***************************************************************************)
(* Bounds of the model                                                     *)
(***************************************************************************)
\* number of command lines the host sends in one behaviour
MaxCommands == 4

\* the same, in the behaviours that start next to a joint limit
LimitCommands == 3

\* the same, in the behaviours checked under fair scheduling
MaxLiveCommands == 3

\* number of lines the host sends to the blocking sketch
MaxBlockingLines == 3

\* number of lines the host sends to the SET_SPEED sketch
MaxSpeedCommands == 3

\* the same, in the behaviours that start with a full recording slot
FullCommands == 2

\* the same, in the behaviours that vary the slot argument
ArgCommands == 3

\* the same, in the behaviours that reuse a recorded slot
ReuseCommands == 4

\* the same, in the behaviours that send HOME during a playback
HomeCommands == 3

\* calls of startServoMovement and startSequencePlayback made on their own
MaxCalls == 2

\* the same, for the choreography sketch
MaxChoreoCommands == 2

\* lines the host sends to the choreography sketch with its serial input
MaxChoreoSent == 3

\* lines the blocking sequence sketch dispatches
MaxPlanCommands == 4

\* lines dispatched while two slots are in use
FrameCommands == 3

\* lines dispatched around a recording session without moves
ListCommands == 3

\* the two elapsed-time clocks stop counting here (above every threshold the
\* code compares them with)
ClockCap == 30

\* milliseconds by which one step of the environment advances millis()
AdvanceMs == {15}

\* what a read past the end of a points array may return as delay_ms: the
\* bytes that follow the array in memory (the name of the next slot, or the
\* globals behind the last slot), as an int
GarbageDelays == {-1, 0, 25}

(***************************************************************************)
(* State of the non-blocking sketch (src/unnamed/part_003, lines 1-565)    *)
(***************************************************************************)
VARIABLES
    jointPositions,             \* int jointPositions[6]
    emergencyStop,              \* boolean emergencyStop
    movementInProgress,         \* boolean movementInProgress
    currentMovement,            \* ServoMovement currentMovement
    msSinceLastMovement,        \* millis() - lastMovementTime, up to ClockCap
    sequences,                  \* Sequence sequences[MAX_SEQUENCES]
    isRecording,                \* boolean isRecording
    currentRecordingSequence,   \* int currentRecordingSequence
    currentPlayback,            \* SequencePlayback, without lastStepTime
    msSinceLastStep,            \* millis() - currentPlayback.lastStepTime
    out,                        \* lines printed by the last loop stage
    written,                    \* servo writes <<joint, angle>> of that stage
    pc,                         \* the stage of loop() that runs next
    handled,                    \* this pass of loop() dispatched a line
    lastLine,                   \* the line it dispatched ("" when none)
    afterStop,                  \* ... and the line dispatched before was STOP
    lastWasStop,                \* the line dispatched last, in any pass, was STOP
    prevLine,                   \* the line dispatched last, in any pass ("" when none)
    msSinceMotionStep,          \* ms since updateServoMovement last wrote to a servo
    cmdCount                    \* lines dispatched so far

nbVars == <<jointPositions, emergencyStop, movementInProgress, currentMovement,
            msSinceLastMovement, sequences, isRecording,
            currentRecordingSequence, currentPlayback, msSinceLastStep, out,
            written, pc, handled, lastLine, afterStop, lastWasStop, prevLine,
            msSinceMotionStep, cmdCount>>

(***************************************************************************)
(* State of the blocking sketch (src/code/code.ino)                        *)
(***************************************************************************)
VARIABLES
    b_jointPositions,           \* int jointPositions[6]
    b_emergencyStop,            \* boolean emergencyStop
    b_movementInProgress,       \* boolean movementInProgress
    b_inputString,              \* String inputString
    b_stringComplete,           \* boolean stringComplete
    b_rx,                       \* bytes received by the UART, not yet read
    b_pc,                       \* "loop", "step" (inside moveServo) or "event"
    b_move,                     \* jointIndex, targetAngle, angle of moveServo
    b_homing,                   \* the index i of setupHome's loop, else -1
    b_out,                      \* lines printed for the current command
    b_written,                  \* servo writes <<joint, angle>> of that command
    b_command,                  \* the inputString that command was read from
    b_stopAt,                   \* Len(b_written) when STOP arrived mid-move, else -1
    b_sent                      \* lines the host has sent so far

bVars == <<b_jointPositions, b_emergencyStop, b_movementInProgress,
           b_inputString, b_stringComplete, b_rx, b_pc, b_move, b_homing,
           b_out, b_written, b_command, b_stopAt, b_sent>>

(***************************************************************************)
(* State of the SET_SPEED sketch (src/unnamed/part_003, lines 567-1116)    *)
(***************************************************************************)
VARIABLES
    s_jointPositions,           \* int jointPositions[6]
    s_emergencyStop,            \* boolean emergencyStop
    s_MOVE_SPEED,               \* int MOVE_SPEED
    s_sequences,                \* Sequence sequences[MAX_SEQUENCES]
    s_isRecording,              \* boolean isRecording
    s_currentRecordingSequence, \* int currentRecordingSequence
    s_out,                      \* lines printed by the last command
    s_written,                  \* servo writes <<joint, angle>> of that command
    s_lastLine,                 \* the line dispatched last
    s_cmdCount                  \* lines dispatched so far

sVars == <<s_jointPositions, s_emergencyStop, s_MOVE_SPEED, s_sequences,
           s_isRecording, s_currentRecordingSequence, s_out, s_written,
           s_lastLine, s_cmdCount>>

(***************************************************************************)
(* State of the choreography sketch (src/unnamed/part_001)                 *)
(***************************************************************************)
VARIABLES
    c_jointPositions,           \* int jointPositions[6]
    c_emergencyStop,            \* boolean emergencyStop
    c_movementInProgress,       \* boolean movementInProgress
    c_sequences,                \* Sequence sequences[MAX_SEQUENCES]
    c_isRecording,              \* boolean isRecording
    c_currentRecordingSequence, \* int currentRecordingSequence
    c_out,                      \* lines printed by the last command
    c_written,                  \* servo writes <<joint, angle>> of that command
    c_targets,                  \* <<joint, angle>> of its moveServo calls
    c_lastLine,                 \* the line dispatched last
    c_cmdCount,                 \* lines dispatched so far
    c_inputString,              \* String inputString
    c_stringComplete,           \* boolean stringComplete
    c_rx,                       \* bytes received by the UART, not yet read
    c_pc,                       \* "loop": loop() is next; "event": serialEvent()
    c_sent,                     \* lines the host has sent so far
    c_sentDuring                \* the line sent while the last command ran ("" when none)

cVars == <<c_jointPositions, c_emergencyStop, c_movementInProgress,
           c_sequences, c_isRecording, c_currentRecordingSequence, c_out,
           c_written, c_targets, c_lastLine, c_cmdCount, c_inputString,
           c_stringComplete, c_rx, c_pc, c_sent, c_sentDuring>>

(***************************************************************************)
(* State of the blocking sequence sketch (src/unnamed/part_002)            *)
(***************************************************************************)
VARIABLES
    p_jointPositions,           \* int jointPositions[6]
    p_emergencyStop,            \* boolean emergencyStop
    p_movementInProgress,       \* boolean movementInProgress
    p_sequences,                \* Sequence sequences[MAX_SEQUENCES]
    p_isRecording,              \* boolean isRecording
    p_currentRecordingSequence, \* int currentRecordingSequence
    p_out,                      \* lines printed by the last command
    p_written,                  \* servo writes <<joint, angle>> of that command
    p_poses,                    \* jointPositions after each waypoint it played
    p_lastLine,                 \* the line dispatched last
    p_cmdCount,                 \* lines dispatched so far
    p_session,                  \* slot of the open recording session, else -1
    p_recorded                  \* per slot: the poses after the accepted J moves
                                \* of its recording session, in order

pVars == <<p_jointPositions, p_emergencyStop, p_movementInProgress,
           p_sequences, p_isRecording, p_currentRecordingSequence, p_out,
           p_written, p_poses, p_lastLine, p_cmdCount, p_session, p_recorded>>

\* the program state as one record, threaded through the handlers
State ==
    [jointPositions |-> jointPositions,
     emergencyStop |-> emergencyStop,
     movementInProgress |-> movementInProgress,
     currentMovement |-> currentMovement,
     msSinceLastMovement |-> msSinceLastMovement,
     sequences |-> sequences,
     isRecording |-> isRecording,
     currentRecordingSequence |-> currentRecordingSequence,
     currentPlayback |-> currentPlayback,
     msSinceLastStep |-> msSinceLastStep,
     msSinceMotionStep |-> msSinceMotionStep,
     out |-> <<>>,
     written |-> <<>>]

Commit(s) ==
    /\ jointPositions' = s.jointPositions
    /\ emergencyStop' = s.emergencyStop
    /\ movementInProgress' = s.movementInProgress
    /\ currentMovement' = s.currentMovement
    /\ msSinceLastMovement' = s.msSinceLastMovement
    /\ sequences' = s.sequences
    /\ isRecording' = s.isRecording
    /\ currentRecordingSequence' = s.currentRecordingSequence
    /\ currentPlayback' = s.currentPlayback
    /\ msSinceLastStep' = s.msSinceLastStep
    /\ msSinceMotionStep' = s.msSinceMotionStep
    /\ out' = s.out
    /\ written' = s.written
    /\ UNCHANGED <<bVars, sVars, cVars, pVars>>

println(s, line) == [s EXCEPT !.out = Append(@, line)]

\* servoN.write(angle)
servoWrite(s, j, angle) == [s EXCEPT !.written = Append(@, <<j, angle>>)]

\* delay(ms): millis() moves on while nothing else runs
delay(s, ms) ==
    [s EXCEPT !.msSinceLastMovement = Min(ClockCap, @ + ms),
              !.msSinceLastStep = Min(ClockCap, @ + ms),
              !.msSinceMotionStep = Min(ClockCap, @ + ms)]

ZeroPoint == [joints |-> [j \in Joints |-> 0], delay_ms |-> 0]

SequenceSlots == 0..(MAX_SEQUENCES - 1)

PointSlots == 0..(MAX_SEQUENCE_LENGTH - 1)

RECURSIVE setupHomeFrom(_, _)
setupHomeFrom(s, i) ==
    IF i >= 6 THEN s
    ELSE setupHomeFrom(
             delay([servoWrite(s, i, HOME_POSITIONS[i])
                       EXCEPT !.jointPositions[i] = HOME_POSITIONS[i]], 200),
             i + 1)

setupHome(s) == setupHomeFrom(s, 0)

sendStatus(s) ==
    println(s, OkLine("STATUS",
        [i \in 1..6 |-> s.jointPositions[i - 1]]
        \o <<IF s.currentMovement.active THEN 1 ELSE 0,
             IF s.isRecording THEN 1 ELSE 0,
             IF s.currentPlayback.active THEN 1 ELSE 0>>))

RangeErrorLine(j) ==
    Line(RESP_ERROR, "Joint angle out of range", <<j + 1, JOINT_MIN[j], JOINT_MAX[j]>>)

\* a limit test that lets one degree too many through
angleOutOfRangeOffByOne(jointIndex, targetAngle) ==
    targetAngle < JOINT_MIN[jointIndex] - 1 \/ targetAngle > JOINT_MAX[jointIndex] + 1

\* the limit test of line 164
angleOutOfRange(jointIndex, targetAngle) ==
    targetAngle < JOINT_MIN[jointIndex] \/ targetAngle > JOINT_MAX[jointIndex]

\* a direction that points away from the target
stepDirectionAway(targetAngle, position) ==
    IF targetAngle > position THEN -1 ELSE 1

\* the direction chosen at line 179
stepDirectionOf(targetAngle, position) ==
    IF targetAngle > position THEN 1 ELSE -1

startServoMovement(s, jointIndex, targetAngle) ==
    IF s.emergencyStop \/ jointIndex < 0 \/ jointIndex >= 6 THEN s
    ELSE IF angleOutOfRange(jointIndex, targetAngle)
    THEN println(s, RangeErrorLine(jointIndex))
    ELSE [s EXCEPT
            !.currentMovement =
                [active |-> TRUE,
                 jointIndex |-> jointIndex,
                 targetAngle |-> targetAngle,
                 currentAngle |-> s.jointPositions[jointIndex],
                 stepDirection |->
                     stepDirectionOf(targetAngle, s.jointPositions[jointIndex])],
            !.movementInProgress = TRUE]

\* a test that finds a step due at every tick
motionStepDueAtOnce(s) == TRUE

\* the test of line 196
motionStepDue(s) == s.msSinceLastMovement >= MOVEMENT_INTERVAL

updateServoMovement(s) ==
    IF ~s.currentMovement.active \/ s.emergencyStop
    THEN IF s.emergencyStop
         THEN println([s EXCEPT !.currentMovement.active = FALSE,
                                !.movementInProgress = FALSE],
                      ErrorLine("Emergency stop active"))
         ELSE s
    ELSE IF motionStepDue(s)
    THEN IF s.currentMovement.jointIndex \notin Joints THEN s
         ELSE LET m == s.currentMovement
                  s1 == [servoWrite(s, m.jointIndex, m.currentAngle)
                            EXCEPT !.jointPositions[m.jointIndex] = m.currentAngle]
              IN  IF m.currentAngle = m.targetAngle
                  THEN [s1 EXCEPT !.currentMovement.active = FALSE,
                                  !.movementInProgress = FALSE,
                                  !.msSinceLastMovement = 0]
                  ELSE [s1 EXCEPT !.currentMovement.currentAngle =
                                      IntWrap16(@ + m.stepDirection),
                                  !.msSinceLastMovement = 0]
    ELSE s

initializeSequences ==
    [i \in SequenceSlots |->
        [name |-> "", points |-> [k \in PointSlots |-> ZeroPoint],
         length |-> 0, valid |-> FALSE]]

\* createSequence returns false exactly when the index is out of range
createSequenceOk(index) == ~(index < 0 \/ index >= MAX_SEQUENCES)

\* a createSequence that keeps the length of the slot's previous occupant
createSequenceKeepsLength(s, index, name) ==
    IF index < 0 \/ index >= MAX_SEQUENCES THEN s
    ELSE [s EXCEPT !.sequences[index].name = toCharArray(name, SEQUENCE_NAME_LENGTH),
                   !.sequences[index].valid = TRUE]

createSequence(s, index, name) ==
    IF index < 0 \/ index >= MAX_SEQUENCES THEN s
    ELSE [s EXCEPT !.sequences[index].name = toCharArray(name, SEQUENCE_NAME_LENGTH),
                   !.sequences[index].length = 0,
                   !.sequences[index].valid = TRUE]

addSequencePoint(s, sequenceIndex, delay_ms) ==
    IF sequenceIndex < 0 \/ sequenceIndex >= MAX_SEQUENCES THEN s
    ELSE IF ~s.sequences[sequenceIndex].valid THEN s
    ELSE IF s.sequences[sequenceIndex].length >= MAX_SEQUENCE_LENGTH THEN s
    ELSE LET pointIndex == s.sequences[sequenceIndex].length
         IN  [s EXCEPT !.sequences[sequenceIndex].points[pointIndex] =
                           [joints |-> s.jointPositions, delay_ms |-> delay_ms],
                       !.sequences[sequenceIndex].length = IntWrap16(@ + 1)]

startSequencePlaybackOk(s, sequenceIndex) ==
    /\ ~(sequenceIndex < 0 \/ sequenceIndex >= MAX_SEQUENCES)
    /\ s.sequences[sequenceIndex].valid
    /\ s.sequences[sequenceIndex].length # 0
    /\ ~(s.currentMovement.active \/ s.currentPlayback.active)

startSequencePlayback(s, sequenceIndex) ==
    IF ~startSequencePlaybackOk(s, sequenceIndex) THEN s
    ELSE [s EXCEPT !.currentPlayback =
                       [active |-> TRUE, sequenceIndex |-> sequenceIndex,
                        currentStep |-> 0],
                   !.msSinceLastStep = 0]

RECURSIVE applyPointFrom(_, _, _)
\* the for loop of lines 435-449
applyPointFrom(s, point, j) ==
    IF j >= 6 THEN s
    ELSE applyPointFrom(
             [servoWrite(s, j, point.joints[j])
                 EXCEPT !.jointPositions[j] = point.joints[j]],
             point, j + 1)

\* a test that finds the next step due at every tick
stepDueAtOnce(s, delayTime) == TRUE

\* the test of line 422; unsigned comparison: a negative int is a huge
\* unsigned long
stepDue(s, delayTime) == delayTime >= 0 /\ s.msSinceLastStep >= delayTime

\* a test that never finds a motion under way
playbackHeldNever(s) == FALSE

\* the test of line 417: the playback waits for the single-joint motion
playbackHeld(s) == s.currentMovement.active

\* garbage: what the read of points[currentStep].delay_ms yields when
\* currentStep is past the end of the array
updateSequencePlayback(s, garbage) ==
    IF ~s.currentPlayback.active \/ s.emergencyStop
    THEN IF s.emergencyStop
         THEN println([s EXCEPT !.currentPlayback.active = FALSE],
                      ErrorLine("Sequence playback stopped by emergency"))
         ELSE s
    ELSE IF playbackHeld(s) THEN s
    ELSE LET p == s.currentPlayback
             seq == s.sequences[p.sequenceIndex]
             delayTime == IF p.currentStep \in PointSlots
                          THEN seq.points[p.currentStep].delay_ms
                          ELSE garbage
         IN  IF stepDue(s, delayTime)
             THEN IF p.currentStep >= seq.length
                  THEN sendStatus(println(
                           [s EXCEPT !.currentPlayback.active = FALSE],
                           OkLine("Sequence completed", <<p.sequenceIndex>>)))
                  ELSE [applyPointFrom(s, seq.points[p.currentStep], 0)
                           EXCEPT !.msSinceLastStep = 0,
                                  !.currentPlayback.currentStep = IntWrap16(@ + 1)]
             ELSE s

RECURSIVE listSequencesFrom(_, _)
listSequencesFrom(s, i) ==
    IF i >= MAX_SEQUENCES THEN s
    ELSE listSequencesFrom(
             IF s.sequences[i].valid
             THEN println(s, Line("", s.sequences[i].name, <<i>>))
             ELSE s,
             i + 1)

listSequences(s) == listSequencesFrom(println(s, Line(RESP_SEQUENCE, "", <<>>)), 0)

allDigits(str) == \A i \in 0..(Len(str) - 1) : isDigit(charAt(str, i))

\* a busy test that never finds the joint busy
jointBusyNever(s, jointIndex) == FALSE

\* the test of line 316
jointBusy(s, jointIndex) ==
    s.currentMovement.active /\ s.currentMovement.jointIndex = jointIndex

processJointCommand(s, command) ==
    LET colonIndex == indexOf(command, ":")
        jointStr == substring(command, 1, colonIndex)
        angleStr == substringFrom(command, colonIndex + 1)
        jointIndex == toInt(jointStr) - 1
        targetAngle == toInt(angleStr)
    IN  IF colonIndex = -1 \/ colonIndex = 1
        THEN println(s, ErrorLine("Invalid joint command format. Use J1:90 format"))
        ELSE IF Len(jointStr) # 1 \/ ~isDigit(charAt(jointStr, 0))
        THEN println(s, ErrorLine("Invalid joint number. Use 1-6"))
        ELSE IF Len(angleStr) = 0
        THEN println(s, ErrorLine("Missing angle value"))
        ELSE IF ~allDigits(angleStr)
        THEN println(s, ErrorLine("Angle must be numeric"))
        ELSE IF jointIndex < 0 \/ jointIndex >= 6
        THEN println(s, ErrorLine("Joint number must be 1-6"))
        ELSE IF jointBusy(s, jointIndex)
        THEN println(s, ErrorLine("Joint already moving, wait for completion"))
        ELSE LET s1 == startServoMovement(s, jointIndex, targetAngle)
                 s2 == IF s1.isRecording /\ s1.currentRecordingSequence >= 0
                       THEN addSequencePoint(s1, s1.currentRecordingSequence,
                                             MOVEMENT_INTERVAL)
                       ELSE s1
             IN  sendStatus(s2)

processRecordStartCommand(s, command) ==
    LET firstColon == indexOf(command, ":")
        secondColon == indexOfFrom(command, ":", firstColon + 1)
        indexStr == substring(command, firstColon + 1, secondColon)
        nameStr == substringFrom(command, secondColon + 1)
        sequenceIndex == toInt(indexStr)
    IN  IF firstColon = -1 \/ secondColon = -1
        THEN println(s, ErrorLine("Invalid RECORD_START format"))
        ELSE IF sequenceIndex < 0 \/ sequenceIndex >= MAX_SEQUENCES
        THEN println(s, ErrorLine("Invalid sequence index"))
        ELSE IF createSequenceOk(sequenceIndex)
        THEN println([createSequence(s, sequenceIndex, nameStr)
                         EXCEPT !.isRecording = TRUE,
                                !.currentRecordingSequence = sequenceIndex],
                     OkLine("Recording started for sequence", <<sequenceIndex>>))
        ELSE println(s, ErrorLine("Failed to create sequence"))

processPlaySequenceCommand(s, command) ==
    LET colonIndex == indexOf(command, ":")
        indexStr == substringFrom(command, colonIndex + 1)
        sequenceIndex == toInt(indexStr)
    IN  IF colonIndex = -1
        THEN println(s, ErrorLine("Invalid PLAY_SEQUENCE format. Use PLAY_SEQUENCE:0"))
        ELSE IF Len(indexStr) = 0
        THEN println(s, ErrorLine("Missing sequence index"))
        ELSE IF ~allDigits(indexStr)
        THEN println(s, ErrorLine("Sequence index must be numeric"))
        ELSE IF startSequencePlaybackOk(s, sequenceIndex)
        THEN println(startSequencePlayback(s, sequenceIndex),
                     OkLine("Started playing sequence", <<sequenceIndex>>))
        ELSE println(s, ErrorLine(
                 "Failed to start sequence playback (movement in progress or invalid sequence)"))

\* a DELETE_SEQUENCE handler that invalidates every slot
processDeleteSequenceCommandAll(s, command) ==
    LET colonIndex == indexOf(command, ":")
        indexStr == substringFrom(command, colonIndex + 1)
        sequenceIndex == toInt(indexStr)
    IN  IF colonIndex = -1
        THEN println(s, ErrorLine("Invalid DELETE_SEQUENCE format"))
        ELSE IF sequenceIndex < 0 \/ sequenceIndex >= MAX_SEQUENCES
        THEN println(s, ErrorLine("Invalid sequence index"))
        ELSE println([s EXCEPT !.sequences =
                                   [i \in SequenceSlots |->
                                       [@[i] EXCEPT !.valid = FALSE, !.length = 0]]],
                     OkLine("Sequence deleted", <<sequenceIndex>>))

processDeleteSequenceCommand(s, command) ==
    LET colonIndex == indexOf(command, ":")
        indexStr == substringFrom(command, colonIndex + 1)
        sequenceIndex == toInt(indexStr)
    IN  IF colonIndex = -1
        THEN println(s, ErrorLine("Invalid DELETE_SEQUENCE format"))
        ELSE IF sequenceIndex < 0 \/ sequenceIndex >= MAX_SEQUENCES
        THEN println(s, ErrorLine("Invalid sequence index"))
        ELSE println([s EXCEPT !.sequences[sequenceIndex].valid = FALSE,
                               !.sequences[sequenceIndex].length = 0],
                     OkLine("Sequence deleted", <<sequenceIndex>>))

\* a STOP branch that reports the stop and leaves the motion engine alone
stopCommandKeepsMotion(s) ==
    LET s1 == [s EXCEPT !.emergencyStop = TRUE, !.isRecording = FALSE]
        s2 == println(s1, ErrorLine("Emergency stop activated"))
        s3 == delay(s2, 50)
        s4 == [s3 EXCEPT !.emergencyStop = FALSE]
    IN  sendStatus(s4)

\* a STOP branch that latches: emergencyStop is never reset
stopCommandLatched(s) ==
    LET s1 == [s EXCEPT !.emergencyStop = TRUE,
                        !.currentMovement.active = FALSE,
                        !.movementInProgress = FALSE,
                        !.isRecording = FALSE]
        s2 == println(s1, ErrorLine("Emergency stop activated"))
    IN  sendStatus(delay(s2, 50))

\* a STOP branch that also takes the recorded pose back to the home pose
stopCommandRollsBack(s) ==
    LET s1 == [s EXCEPT !.emergencyStop = TRUE,
                        !.currentMovement.active = FALSE,
                        !.movementInProgress = FALSE,
                        !.isRecording = FALSE,
                        !.jointPositions = HOME_POSITIONS]
        s2 == println(s1, ErrorLine("Emergency stop activated"))
        s3 == delay(s2, 50)
        s4 == [s3 EXCEPT !.emergencyStop = FALSE]
    IN  sendStatus(s4)

\* the STOP branch of processCommand, lines 244-252
stopCommand(s) ==
    LET s1 == [s EXCEPT !.emergencyStop = TRUE,
                        !.currentMovement.active = FALSE,
                        !.movementInProgress = FALSE,
                        !.isRecording = FALSE]
        s2 == println(s1, ErrorLine("Emergency stop activated"))
        s3 == delay(s2, 50)
        s4 == [s3 EXCEPT !.emergencyStop = FALSE]
    IN  sendStatus(s4)

\* the HOME branch of processCommand, lines 237-243
homeCommand(s) ==
    IF ~s.movementInProgress THEN sendStatus(setupHome(s))
    ELSE println(s, ErrorLine("Movement in progress, cannot go home"))

\* the PLAY_SEQUENCE branch of processCommand, lines 260-265
playSequenceCommand(s, command) ==
    IF ~s.movementInProgress THEN processPlaySequenceCommand(s, command)
    ELSE println(s, ErrorLine("Movement in progress, cannot play sequence"))

\* command.trim(); command.toUpperCase();
normalize(command) == toUpperCase(trim(command))

\* a RECORD_STOP branch that drops the slot when nothing was recorded into it
recordStopDropsEmpty(s) ==
    LET i == s.currentRecordingSequence
        s1 == IF s.isRecording /\ i \in SequenceSlots /\ s.sequences[i].length = 0
              THEN [s EXCEPT !.sequences[i].valid = FALSE]
              ELSE s
    IN  println([s1 EXCEPT !.isRecording = FALSE], OkLine("Recording stopped", <<>>))

\* the RECORD_STOP branch of processCommand, lines 257-259
recordStopCommand(s) ==
    println([s EXCEPT !.isRecording = FALSE], OkLine("Recording stopped", <<>>))

processCommand(s, line) ==
    LET command == normalize(line)
    IN  IF Len(command) = 0 THEN s
        ELSE IF startsWith(command, CMD_JOINT_PREFIX) THEN processJointCommand(s, command)
        ELSE IF command = CMD_HOME THEN homeCommand(s)
        ELSE IF command = CMD_STOP THEN stopCommand(s)
        ELSE IF command = CMD_STATUS THEN sendStatus(s)
        ELSE IF startsWith(command, CMD_RECORD_START)
        THEN processRecordStartCommand(s, command)
        ELSE IF command = CMD_RECORD_STOP THEN recordStopCommand(s)
        ELSE IF startsWith(command, CMD_PLAY_SEQUENCE) THEN playSequenceCommand(s, command)
        ELSE IF command = CMD_LIST_SEQUENCES THEN listSequences(s)
        ELSE IF startsWith(command, CMD_DELETE_SEQUENCE)
        THEN processDeleteSequenceCommand(s, command)
        ELSE println(s, Line(RESP_ERROR, "Unknown command: " \o command, <<>>))

(***************************************************************************)
(* The state setup() leaves in the other two sketches                      *)
(***************************************************************************)
\* code.ino, lines 41-63: setupHome moves nothing, every joint is at home
b_setup ==
    /\ b_jointPositions = HOME_POSITIONS
    /\ b_emergencyStop = FALSE
    /\ b_movementInProgress = FALSE
    /\ b_inputString = ""
    /\ b_stringComplete = FALSE
    /\ b_rx = ""
    /\ b_pc = "loop"
    /\ b_move = [jointIndex |-> 5, targetAngle |-> HOME_POSITIONS[5],
                 angle |-> HOME_POSITIONS[5]]
    /\ b_homing = -1
    /\ b_out = <<>>
    /\ b_written = <<>>
    /\ b_command = ""
    /\ b_stopAt = -1
    /\ b_sent = 0

\* part_003, lines 607-662
s_setup ==
    /\ s_jointPositions = HOME_POSITIONS
    /\ s_emergencyStop = FALSE
    /\ s_MOVE_SPEED = 15
    /\ s_sequences = initializeSequences
    /\ s_isRecording = FALSE
    /\ s_currentRecordingSequence = -1
    /\ s_out = <<>>
    /\ s_written = <<>>
    /\ s_lastLine = ""
    /\ s_cmdCount = 0

\* part_002, lines 52-53
p_MAX_SEQUENCE_LENGTH == 50

p_MAX_SEQUENCES == 5

p_SequenceSlots == 0..(p_MAX_SEQUENCES - 1)

\* points[MAX_SEQUENCE_LENGTH] of a slot is kept as the sequence of its
\* entries up to the last one written so far; the entries behind it still
\* hold the zeros the array has at start-up (part_002 lines 56-71)
p_pointAt(points, k) == IF k < Len(points) THEN points[k + 1] ELSE ZeroPoint

p_pointPut(points, k, point) ==
    [i \in 1..(IF Len(points) > k THEN Len(points) ELSE k + 1) |->
        IF i = k + 1 THEN point ELSE p_pointAt(points, i - 1)]

\* initializeSequences, part_002 lines 253-258
p_initializeSequences ==
    [i \in p_SequenceSlots |->
        [name |-> "", points |-> <<>>, length |-> 0, valid |-> FALSE]]

\* part_002, lines 73-88 and the initialisers of lines 38-71: setupHome
\* moves nothing, every joint is at home
p_setup ==
    /\ p_jointPositions = HOME_POSITIONS
    /\ p_emergencyStop = FALSE
    /\ p_movementInProgress = FALSE
    /\ p_sequences = p_initializeSequences
    /\ p_isRecording = FALSE
    /\ p_currentRecordingSequence = -1
    /\ p_out = <<>>
    /\ p_written = <<>>
    /\ p_poses = <<>>
    /\ p_lastLine = ""
    /\ p_cmdCount = 0
    /\ p_session = -1
    /\ p_recorded = [i \in p_SequenceSlots |-> <<>>]

\* part_001, lines 80-96 and the initialisers of lines 41-77
c_setup ==
    /\ c_jointPositions = HOME_POSITIONS
    /\ c_emergencyStop = FALSE
    /\ c_movementInProgress = FALSE
    /\ c_sequences = initializeSequences
    /\ c_isRecording = FALSE
    /\ c_currentRecordingSequence = -1
    /\ c_out = <<>>
    /\ c_written = <<>>
    /\ c_targets = <<>>
    /\ c_lastLine = ""
    /\ c_cmdCount = 0
    /\ c_inputString = ""
    /\ c_stringComplete = FALSE
    /\ c_rx = ""
    /\ c_pc = "loop"
    /\ c_sent = 0
    /\ c_sentDuring = ""

(***************************************************************************)
(* The loop of the non-blocking sketch                                     *)
(***************************************************************************)
\* the lines the host may send
Lines ==
    {"J1:93", "J1:90", "J2:86", "J1:181", "HOME", "STOP", "STATUS",
     "RECORD_START:0:A", "RECORD_STOP", "PLAY_SEQUENCE:0", "LIST_SEQUENCES",
     "DELETE_SEQUENCE:0"}

\* the state setup() leaves, lines 87-103 and the initialisers of lines 41-85
\* and 157: setupHome has run (1200 ms of delays) and lastMovementTime is
\* still 0, so both clocks are past every interval
NbInit ==
    /\ jointPositions = HOME_POSITIONS
    /\ emergencyStop = FALSE
    /\ movementInProgress = FALSE
    /\ currentMovement = [active |-> FALSE, jointIndex |-> 0, targetAngle |-> 0,
                          currentAngle |-> 0, stepDirection |-> 0]
    /\ msSinceLastMovement = ClockCap
    /\ msSinceMotionStep = ClockCap
    /\ sequences = initializeSequences
    /\ isRecording = FALSE
    /\ currentRecordingSequence = -1
    /\ currentPlayback = [active |-> FALSE, sequenceIndex |-> -1, currentStep |-> 0]
    /\ msSinceLastStep = ClockCap
    /\ out = <<>>
    /\ written = <<>>
    /\ pc = "command"
    /\ handled = FALSE
    /\ lastLine = ""
    /\ afterStop = FALSE
    /\ lastWasStop = FALSE
    /\ prevLine = ""
    /\ cmdCount = 0

\* loop(), lines 107-111, when a complete line is waiting
LoopCommand(line, budget) ==
    /\ pc = "command"
    /\ cmdCount < budget
    /\ Commit(processCommand(State, line))
    /\ pc' = "motion"
    /\ handled' = TRUE
    /\ lastLine' = line
    /\ afterStop' = lastWasStop
    /\ lastWasStop' = (normalize(line) = CMD_STOP)
    /\ prevLine' = line
    /\ cmdCount' = cmdCount + 1

\* loop(), lines 107-111, when stringComplete is false
LoopNoCommand ==
    /\ pc = "command"
    /\ Commit(State)
    /\ pc' = "motion"
    /\ handled' = FALSE
    /\ lastLine' = ""
    /\ afterStop' = FALSE
    /\ UNCHANGED <<lastWasStop, prevLine, cmdCount>>

\* loop(), line 114
MotionTick ==
    /\ pc = "motion"
    /\ LET s == updateServoMovement(State)
       IN  Commit(IF s.written # <<>> THEN [s EXCEPT !.msSinceMotionStep = 0] ELSE s)
    /\ pc' = "playback"
    /\ UNCHANGED <<handled, lastLine, afterStop, lastWasStop, prevLine, cmdCount>>

\* loop(), line 117
PlaybackTick ==
    /\ pc = "playback"
    /\ \E garbage \in GarbageDelays : Commit(updateSequencePlayback(State, garbage))
    /\ pc' = "command"
    /\ UNCHANGED <<handled, lastLine, afterStop, lastWasStop, prevLine, cmdCount>>

\* millis() advances between two stages of the loop
Advance ==
    /\ \E d \in AdvanceMs :
          /\ msSinceLastMovement' = Min(ClockCap, msSinceLastMovement + d)
          /\ msSinceLastStep' = Min(ClockCap, msSinceLastStep + d)
          /\ msSinceMotionStep' = Min(ClockCap, msSinceMotionStep + d)
    /\ UNCHANGED <<jointPositions, emergencyStop, movementInProgress,
                   currentMovement, sequences, isRecording,
                   currentRecordingSequence, currentPlayback, out, written, pc,
                   handled, lastLine, afterStop, lastWasStop, prevLine,
                   cmdCount>>
    /\ UNCHANGED <<bVars, sVars, cVars, pVars>>

NbLoop(lines, budget) ==
    \/ \E line \in lines : LoopCommand(line, budget)
    \/ LoopNoCommand
    \/ MotionTick
    \/ PlaybackTick

vars == <<nbVars, bVars, sVars, cVars, pVars>>

Init == NbInit /\ b_setup /\ s_setup /\ c_setup /\ p_setup

Next == NbLoop(Lines, MaxCommands) \/ Advance

Spec == Init /\ [][Next]_vars

(***************************************************************************)
(* The same sketch, started next to a joint limit                          *)
(***************************************************************************)
\* joint 1 one degree below its maximum, the other joints at home
LimitPose == [HOME_POSITIONS EXCEPT ![0] = JOINT_MAX[0] - 1]

LimitLines ==
    {"J1:180", "J1:181", "J1:178", "J2:86", "HOME", "STOP", "STATUS",
     "RECORD_START:0:A", "RECORD_STOP", "PLAY_SEQUENCE:0", "LIST_SEQUENCES",
     "DELETE_SEQUENCE:0"}

\* the state after setup() and a completed move of joint 1 to LimitPose[0]
LimitInit ==
    /\ b_setup
    /\ s_setup
    /\ c_setup /\ p_setup
    /\ jointPositions = LimitPose
    /\ emergencyStop = FALSE
    /\ movementInProgress = FALSE
    /\ currentMovement = [active |-> FALSE, jointIndex |-> 0,
                          targetAngle |-> LimitPose[0],
                          currentAngle |-> LimitPose[0], stepDirection |-> 1]
    /\ msSinceLastMovement = ClockCap
    /\ msSinceMotionStep = ClockCap
    /\ sequences = initializeSequences
    /\ isRecording = FALSE
    /\ currentRecordingSequence = -1
    /\ currentPlayback = [active |-> FALSE, sequenceIndex |-> -1, currentStep |-> 0]
    /\ msSinceLastStep = ClockCap
    /\ out = <<>>
    /\ written = <<>>
    /\ pc = "command"
    /\ handled = FALSE
    /\ lastLine = ""
    /\ afterStop = FALSE
    /\ lastWasStop = FALSE
    /\ prevLine = ""
    /\ cmdCount = 0

LimitNext == NbLoop(LimitLines, LimitCommands) \/ Advance

LimitSpec == LimitInit /\ [][LimitNext]_vars

(***************************************************************************)
(* The same sketch, with the slot being recorded already full              *)
(***************************************************************************)
\* a waypoint recorded at the home pose
HomePoint == [joints |-> HOME_POSITIONS, delay_ms |-> MOVEMENT_INTERVAL]

FullLines ==
    {"J1:93", "J1:92", "J2:86", "STATUS", "STOP", "RECORD_STOP",
     "PLAY_SEQUENCE:0", "DELETE_SEQUENCE:0"}

\* the state after setup(), RECORD_START:0:A and MAX_SEQUENCE_LENGTH
\* commands J1:92, each finished before the next: every waypoint is the
\* home pose and the recording is still active
FullInit ==
    /\ b_setup
    /\ s_setup
    /\ c_setup /\ p_setup
    /\ jointPositions = HOME_POSITIONS
    /\ emergencyStop = FALSE
    /\ movementInProgress = FALSE
    /\ currentMovement = [active |-> FALSE, jointIndex |-> 0,
                          targetAngle |-> HOME_POSITIONS[0],
                          currentAngle |-> HOME_POSITIONS[0], stepDirection |-> -1]
    /\ msSinceLastMovement = ClockCap
    /\ msSinceMotionStep = ClockCap
    /\ sequences = [initializeSequences EXCEPT
                       ![0] = [name |-> "A",
                               points |-> [k \in PointSlots |-> HomePoint],
                               length |-> MAX_SEQUENCE_LENGTH, valid |-> TRUE]]
    /\ isRecording = TRUE
    /\ currentRecordingSequence = 0
    /\ currentPlayback = [active |-> FALSE, sequenceIndex |-> -1, currentStep |-> 0]
    /\ msSinceLastStep = ClockCap
    /\ out = <<>>
    /\ written = <<>>
    /\ pc = "command"
    /\ handled = FALSE
    /\ lastLine = ""
    /\ afterStop = FALSE
    /\ lastWasStop = FALSE
    /\ prevLine = ""
    /\ cmdCount = 0

FullNext == NbLoop(FullLines, FullCommands) \/ Advance

FullSpec == FullInit /\ [][FullNext]_vars

\* the same behaviours, in which loop() keeps running and time advances
FullFairSpec ==
    /\ FullInit
    /\ [][FullNext]_vars
    /\ WF_vars(LoopNoCommand \/ MotionTick \/ PlaybackTick)
    /\ WF_vars(Advance)

(***************************************************************************)
(* The same sketch, with the slot arguments a host can send                *)
(***************************************************************************)
ArgLines ==
    {"J1:93", "RECORD_START:0:A", "RECORD_START:2:A", "RECORD_START:X:B",
     "RECORD_START::B", "PLAY_SEQUENCE:0", "PLAY_SEQUENCE:1", "PLAY_SEQUENCE:2",
     "PLAY_SEQUENCE:65536", "PLAY_SEQUENCE:X", "PLAY_SEQUENCE",
     "DELETE_SEQUENCE:0", "DELETE_SEQUENCE:", "DELETE_SEQUENCE:X"}

ArgNext == NbLoop(ArgLines, ArgCommands) \/ Advance

ArgSpec == Init /\ [][ArgNext]_vars

(***************************************************************************)
(* The same sketch, with slot 0 holding an earlier recording               *)
(***************************************************************************)
\* the pose the earlier recording was made at: joint 2 one degree off home
EarlierPose == [HOME_POSITIONS EXCEPT ![1] = HOME_POSITIONS[1] + 1]

ReuseLines ==
    {"DELETE_SEQUENCE:0", "RECORD_START:0:B", "J1:93", "PLAY_SEQUENCE:0"}

\* the state after setup(), J2:86, RECORD_START:0:A, MAX_SEQUENCE_LENGTH - 1
\* commands J2:86, then J2:85 and RECORD_STOP, each move finished before the
\* next command: every waypoint is the pose held before its move (joint 2
\* at 86) and the arm is back at home
ReuseInit ==
    /\ b_setup
    /\ s_setup
    /\ c_setup /\ p_setup
    /\ jointPositions = HOME_POSITIONS
    /\ emergencyStop = FALSE
    /\ movementInProgress = FALSE
    /\ currentMovement = [active |-> FALSE, jointIndex |-> 1,
                          targetAngle |-> HOME_POSITIONS[1],
                          currentAngle |-> HOME_POSITIONS[1], stepDirection |-> -1]
    /\ msSinceLastMovement = ClockCap
    /\ msSinceMotionStep = ClockCap
    /\ sequences = [initializeSequences EXCEPT
                       ![0] = [name |-> "A",
                               points |-> [k \in PointSlots |->
                                              [joints |-> EarlierPose,
                                               delay_ms |-> MOVEMENT_INTERVAL]],
                               length |-> MAX_SEQUENCE_LENGTH, valid |-> TRUE]]
    /\ isRecording = FALSE
    /\ currentRecordingSequence = 0
    /\ currentPlayback = [active |-> FALSE, sequenceIndex |-> -1, currentStep |-> 0]
    /\ msSinceLastStep = ClockCap
    /\ out = <<>>
    /\ written = <<>>
    /\ pc = "command"
    /\ handled = FALSE
    /\ lastLine = ""
    /\ afterStop = FALSE
    /\ lastWasStop = FALSE
    /\ prevLine = ""
    /\ cmdCount = 0

ReuseNext == NbLoop(ReuseLines, ReuseCommands) \/ Advance

ReuseSpec == ReuseInit /\ [][ReuseNext]_vars

(***************************************************************************)
(* startServoMovement and startSequencePlayback, called on their own       *)
(*                                                                         *)
(* The two functions are applied to program states drawn from a small set, *)
(* with emergencyStop set or clear: the flag is set only inside the STOP   *)
(* branch of processCommand, which calls neither.                          *)
(***************************************************************************)
\* the joint indices, target angles and slots the calls are made with
CallJoints == -1..6

CallAngles == {30, 93, 181}

CallSlots == -1..MAX_SEQUENCES

CallInit ==
    /\ b_setup
    /\ s_setup
    /\ c_setup /\ p_setup
    /\ jointPositions \in {HOME_POSITIONS, EarlierPose}
    /\ emergencyStop \in BOOLEAN
    /\ movementInProgress = FALSE
    /\ currentMovement = [active |-> FALSE, jointIndex |-> 1,
                          targetAngle |-> HOME_POSITIONS[1],
                          currentAngle |-> HOME_POSITIONS[1], stepDirection |-> -1]
    /\ msSinceLastMovement = ClockCap
    /\ msSinceMotionStep = ClockCap
    /\ sequences \in
           {initializeSequences,
            [initializeSequences EXCEPT
                ![0] = [name |-> "A",
                        points |-> [k \in PointSlots |->
                                       [joints |-> EarlierPose,
                                        delay_ms |-> MOVEMENT_INTERVAL]],
                        length |-> MAX_SEQUENCE_LENGTH, valid |-> TRUE]]}
    /\ isRecording = FALSE
    /\ currentRecordingSequence = 0
    /\ currentPlayback = [active |-> FALSE, sequenceIndex |-> -1, currentStep |-> 0]
    /\ msSinceLastStep = ClockCap
    /\ out = <<>>
    /\ written = <<>>
    /\ pc = "command"
    /\ handled = FALSE
    /\ lastLine = ""
    /\ afterStop = FALSE
    /\ lastWasStop = FALSE
    /\ prevLine = ""
    /\ cmdCount = 0

\* a call of startServoMovement, lines 160-182
StartMovementCall(jointIndex, targetAngle) ==
    /\ cmdCount < MaxCalls
    /\ Commit(startServoMovement(State, jointIndex, targetAngle))
    /\ cmdCount' = cmdCount + 1
    /\ UNCHANGED <<pc, handled, lastLine, afterStop, lastWasStop, prevLine>>

\* a call of startSequencePlayback, lines 388-404
StartPlaybackCall(sequenceIndex) ==
    /\ cmdCount < MaxCalls
    /\ Commit(startSequencePlayback(State, sequenceIndex))
    /\ cmdCount' = cmdCount + 1
    /\ UNCHANGED <<pc, handled, lastLine, afterStop, lastWasStop, prevLine>>

CallNext ==
    \/ \E jointIndex \in CallJoints, targetAngle \in CallAngles :
           StartMovementCall(jointIndex, targetAngle)
    \/ \E sequenceIndex \in CallSlots : StartPlaybackCall(sequenceIndex)

CallSpec == CallInit /\ [][CallNext]_vars

(***************************************************************************)
(* The same start, with HOME and STATUS among the lines                    *)
(***************************************************************************)
HomeLines == {"PLAY_SEQUENCE:0", "HOME", "STATUS", "J1:93"}

HomeNext == NbLoop(HomeLines, HomeCommands) \/ Advance

HomeSpec == ReuseInit /\ [][HomeNext]_vars

\* lines that record into and delete both slots, by a plain slot number, by
\* one that does not fit an int and by one that is no number
FrameLines ==
    {"RECORD_START:0:A", "RECORD_START:1:B", "RECORD_START:65537:C", "J1:93",
     "J2:86", "RECORD_STOP", "DELETE_SEQUENCE:0", "DELETE_SEQUENCE:1",
     "DELETE_SEQUENCE:X"}

FrameNext == NbLoop(FrameLines, FrameCommands) \/ Advance

FrameSpec == ReuseInit /\ [][FrameNext]_vars

\* lines that open, close and list recording sessions on both slots
ListLines ==
    {"RECORD_START:0:A", "RECORD_START:1:B", "RECORD_STOP", "LIST_SEQUENCES",
     "J1:93", "DELETE_SEQUENCE:0", "STOP", "list_sequences "}

ListNext == NbLoop(ListLines, ListCommands) \/ Advance

ListSpec == Init /\ [][ListNext]_vars

(***************************************************************************)
(* The same sketch under fair scheduling: loop() never stops running and   *)
(* millis() keeps advancing                                                *)
(***************************************************************************)
FairLines == {"J1:90", "J1:93", "J2:86", "STOP", "HOME"}

\* the joint and the angle of each J line among them
FairTargets == {<<0, 90>>, <<0, 93>>, <<1, 86>>}

FairNext == NbLoop(FairLines, MaxLiveCommands) \/ Advance

\* a pass of loop() goes on, whether or not the host sends a line
Stage == LoopNoCommand \/ MotionTick \/ PlaybackTick

FairSpec ==
    /\ Init
    /\ [][FairNext]_vars
    /\ WF_vars(Stage)
    /\ WF_vars(Advance)

(***************************************************************************)
(* The blocking sketch (src/code/code.ino)                                 *)
(*                                                                         *)
(* loop() dispatches a complete line and does not return before the moves  *)
(* the line asks for are finished; serialEvent() runs between two passes   *)
(* of loop().  The stepping loop of moveServo is modelled step by step, so *)
(* that bytes of the host can arrive while a move is under way.            *)
(***************************************************************************)
\* the lines the host may send to the blocking sketch
BlockingLines ==
    {"J1:94", "J1:90", "J1:181", "J2:29", "J1:65626", "J7:90", "J1", "STOP",
     "HOME", "STATUS"}

b_State ==
    [jointPositions |-> b_jointPositions,
     emergencyStop |-> b_emergencyStop,
     movementInProgress |-> b_movementInProgress,
     inputString |-> b_inputString,
     stringComplete |-> b_stringComplete,
     rx |-> b_rx,
     pc |-> b_pc,
     move |-> b_move,
     homing |-> b_homing,
     out |-> b_out,
     written |-> b_written]

b_Commit(s) ==
    /\ b_jointPositions' = s.jointPositions
    /\ b_emergencyStop' = s.emergencyStop
    /\ b_movementInProgress' = s.movementInProgress
    /\ b_inputString' = s.inputString
    /\ b_stringComplete' = s.stringComplete
    /\ b_rx' = s.rx
    /\ b_pc' = s.pc
    /\ b_move' = s.move
    /\ b_homing' = s.homing
    /\ b_out' = s.out
    /\ b_written' = s.written
    /\ UNCHANGED <<nbVars, sVars, cVars, pVars>>

\* sendStatus, lines 195-205
b_sendStatus(s) ==
    println(s, OkLine("STATUS", [i \in 1..6 |-> s.jointPositions[i - 1]]))

\* moveServo, lines 127-128: what follows the stepping loops
b_moveServoEnd(s) ==
    [s EXCEPT !.jointPositions[s.move.jointIndex] = s.move.targetAngle,
              !.movementInProgress = FALSE]

\* moveServo, lines 94-125, up to the first test of a stepping loop: the
\* result has pc = "step" when a loop has been entered
b_moveServoBegin(s, jointIndex, targetAngle) ==
    IF s.emergencyStop THEN println(s, ErrorLine("Emergency stop active"))
    ELSE IF jointIndex \notin Joints THEN s
    ELSE LET s1 == [s EXCEPT !.movementInProgress = TRUE,
                             !.move = [jointIndex |-> jointIndex,
                                       targetAngle |-> targetAngle,
                                       angle |-> s.jointPositions[jointIndex]]]
         IN  IF s.jointPositions[jointIndex] # targetAngle
             THEN [s1 EXCEPT !.pc = "step"]
             ELSE b_moveServoEnd(s1)

\* loop(), lines 69-70
b_endCommand(s) ==
    [s EXCEPT !.inputString = "", !.stringComplete = FALSE, !.pc = "event"]

RECURSIVE b_setupHomeFrom(_, _)
\* setupHome, lines 85-90, from index i on; it stops inside moveServo when a
\* stepping loop is entered
b_setupHomeFrom(s, i) ==
    IF i >= 6 THEN [s EXCEPT !.homing = -1]
    ELSE LET s1 == b_moveServoBegin([s EXCEPT !.homing = i], i, HOME_POSITIONS[i])
         IN  IF s1.pc = "step" THEN s1
             ELSE b_setupHomeFrom(
                      [s1 EXCEPT !.jointPositions[i] = HOME_POSITIONS[i]], i + 1)

b_setupHome(s) == b_setupHomeFrom(s, 0)

\* processJointCommand, lines 157-192; the result has pc = "step" when the
\* move is under way
b_processJointCommand(s, command) ==
    LET colonIndex == indexOf(command, ":")
        jointStr == substring(command, 1, colonIndex)
        angleStr == substringFrom(command, colonIndex + 1)
        jointIndex == IntWrap16(toInt(jointStr) - 1)
        targetAngle == toInt(angleStr)
    IN  IF colonIndex = -1
        THEN println(s, ErrorLine("Invalid joint command format"))
        ELSE IF jointIndex < 0 \/ jointIndex >= 6
        THEN println(s, ErrorLine("Invalid joint number (1-6)"))
        ELSE IF angleOutOfRange(jointIndex, targetAngle)
        THEN println(s, RangeErrorLine(jointIndex))
        ELSE LET s1 == b_moveServoBegin(s, jointIndex, targetAngle)
             IN  IF s1.pc = "step" THEN s1 ELSE b_sendStatus(s1)

\* the STOP branch of processCommand, lines 142-148
b_stopCommand(s) ==
    b_sendStatus(
        [println([s EXCEPT !.emergencyStop = TRUE, !.movementInProgress = FALSE],
                 ErrorLine("Emergency stop activated"))
            EXCEPT !.emergencyStop = FALSE])

\* processCommand, lines 132-154
b_processCommand(s, line) ==
    LET command == normalize(line)
    IN  IF startsWith(command, CMD_JOINT_PREFIX) THEN b_processJointCommand(s, command)
        ELSE IF command = CMD_HOME
        THEN LET s1 == b_setupHome(s)
             IN  IF s1.pc = "step" THEN s1 ELSE b_sendStatus(s1)
        ELSE IF command = CMD_STOP THEN b_stopCommand(s)
        ELSE IF command = CMD_STATUS THEN b_sendStatus(s)
        ELSE println(s, ErrorLine("Invalid command"))

\* what the caller of moveServo does once moveServo has returned: setupHome
\* goes on with the next joint, processJointCommand and the HOME branch send
\* the status, and loop() clears the line
b_resume(s) ==
    LET s1 == IF s.homing >= 0
              THEN b_setupHomeFrom(
                       [s EXCEPT !.jointPositions[s.homing] = HOME_POSITIONS[s.homing]],
                       s.homing + 1)
              ELSE s
    IN  IF s1.pc = "step" THEN s1 ELSE b_endCommand(b_sendStatus(s1))

\* one pass of a stepping loop of moveServo, lines 114-118 and 120-124, and
\* the loop test that follows it
b_moveServoStep(s) ==
    LET m == s.move
        up == s.jointPositions[m.jointIndex] < m.targetAngle
    IN  IF s.emergencyStop THEN b_moveServoEnd([s EXCEPT !.pc = "loop"])
        ELSE LET next == IntWrap16(IF up THEN m.angle + 1 ELSE m.angle - 1)
                 s1 == [servoWrite(s, m.jointIndex, m.angle) EXCEPT !.move.angle = next]
                 goesOn == IF up THEN next <= m.targetAngle ELSE next >= m.targetAngle
             IN  IF goesOn THEN s1 ELSE b_moveServoEnd([s1 EXCEPT !.pc = "loop"])

RECURSIVE b_serialEvent(_)
\* serialEvent, lines 208-217
b_serialEvent(s) ==
    IF Len(s.rx) = 0 THEN s
    ELSE LET inChar == charAt(s.rx, 0)
             s1 == [s EXCEPT !.rx = Tail(s.rx)]
         IN  IF inChar = "\n" \/ inChar = "\r"
             THEN b_serialEvent([s1 EXCEPT !.stringComplete = TRUE])
             ELSE b_serialEvent([s1 EXCEPT !.inputString = @ \o inChar])

\* the host sends a line; the UART receives it whatever the sketch is doing
BArrive(line) ==
    /\ b_sent < MaxBlockingLines
    /\ b_rx' = b_rx \o line \o "\n"
    /\ b_sent' = b_sent + 1
    /\ b_stopAt' = IF b_pc = "step" /\ normalize(line) = CMD_STOP /\ b_stopAt = -1
                   THEN Len(b_written)
                   ELSE b_stopAt
    /\ UNCHANGED <<b_jointPositions, b_emergencyStop, b_movementInProgress,
                   b_inputString, b_stringComplete, b_pc, b_move, b_homing, b_out,
                   b_written, b_command>>
    /\ UNCHANGED <<nbVars, sVars, cVars, pVars>>

\* loop(), lines 67-71, when a complete line is waiting
BLoopCommand ==
    /\ b_pc = "loop"
    /\ b_stringComplete
    /\ LET s == b_processCommand([b_State EXCEPT !.out = <<>>, !.written = <<>>],
                                 b_inputString)
       IN  b_Commit(IF s.pc = "step" THEN s ELSE b_endCommand(s))
    /\ b_command' = b_inputString
    /\ b_stopAt' = -1
    /\ UNCHANGED b_sent

\* loop(), line 67, when stringComplete is false
BLoopIdle ==
    /\ b_pc = "loop"
    /\ ~b_stringComplete
    /\ b_Commit([b_State EXCEPT !.pc = "event"])
    /\ UNCHANGED <<b_command, b_stopAt, b_sent>>

\* moveServo steps the joint by one degree; when the loop is left the callers
\* run to the end of the command or into the next stepping loop
BMoveStep ==
    /\ b_pc = "step"
    /\ LET s == b_moveServoStep(b_State)
       IN  b_Commit(IF s.pc = "step" THEN s ELSE b_resume(s))
    /\ UNCHANGED <<b_command, b_stopAt, b_sent>>

\* serialEvent runs after loop() has returned
BSerialEvent ==
    /\ b_pc = "event"
    /\ b_Commit([b_serialEvent(b_State) EXCEPT !.pc = "loop"])
    /\ UNCHANGED <<b_command, b_stopAt, b_sent>>

BlockingInit == NbInit /\ b_setup /\ s_setup /\ c_setup /\ p_setup

BlockingNext ==
    \/ \E line \in BlockingLines : BArrive(line)
    \/ BLoopCommand
    \/ BLoopIdle
    \/ BMoveStep
    \/ BSerialEvent

BlockingSpec == BlockingInit /\ [][BlockingNext]_vars

(***************************************************************************)
(* The blocking sketch with emergencyStop raised during a stepping loop    *)
(*                                                                         *)
(* Nothing in the sketch sets emergencyStop while moveServo is stepping:   *)
(* the STOP branch runs in loop(), which is busy.  The test of lines 115   *)
(* and 121 is written for a flag that changes under the loop, as a handler *)
(* outside loop() would change it; here the flag may be raised so.         *)
(***************************************************************************)
BStopRaised ==
    /\ b_pc = "step"
    /\ ~b_emergencyStop
    /\ b_emergencyStop' = TRUE
    /\ UNCHANGED <<b_jointPositions, b_movementInProgress, b_inputString,
                   b_stringComplete, b_rx, b_pc, b_move, b_homing, b_out,
                   b_written, b_command, b_stopAt, b_sent>>
    /\ UNCHANGED <<nbVars, sVars, cVars, pVars>>

StopRaisedNext == BlockingNext \/ BStopRaised

StopRaisedSpec == BlockingInit /\ [][StopRaisedNext]_vars

(***************************************************************************)
(* The SET_SPEED sketch (src/unnamed/part_003, lines 567-1116)             *)
(*                                                                         *)
(* Every move is blocking and nothing sets emergencyStop while a command   *)
(* runs, so a command is one step.  The header that defines CMD_MIN,       *)
(* CMD_MAX, CMD_WAVE and CMD_SET_SPEED is not among the sources: WAVE and  *)
(* SET_SPEED are the texts the README gives (part_004, lines 171-172), MIN *)
(* and MAX are taken from the names of the macros.                         *)
(***************************************************************************)
CMD_MIN == "MIN"

CMD_MAX == "MAX"

CMD_WAVE == "WAVE"

CMD_SET_SPEED == "SET_SPEED"

\* the lines the host may send to the SET_SPEED sketch
SpeedLines ==
    {"J1:93", "J1:200", "J2:10", "J2:160", "J7:90", "HOME", "STOP", "STATUS",
     "WAVE", "SET_SPEED:5", "SET_SPEED:250", "SET_SPEED:50", "SET_SPEED:4",
     "SET_SPEED:65546", "SET_SPEED:FAST", "RECORD_START:0:A",
     "RECORD_STOP", "PLAY_SEQUENCE:0", "LIST_SEQUENCES", "DELETE_SEQUENCE:0"}

s_State ==
    [jointPositions |-> s_jointPositions,
     emergencyStop |-> s_emergencyStop,
     MOVE_SPEED |-> s_MOVE_SPEED,
     sequences |-> s_sequences,
     isRecording |-> s_isRecording,
     currentRecordingSequence |-> s_currentRecordingSequence,
     out |-> <<>>,
     written |-> <<>>]

s_Commit(s) ==
    /\ s_jointPositions' = s.jointPositions
    /\ s_emergencyStop' = s.emergencyStop
    /\ s_MOVE_SPEED' = s.MOVE_SPEED
    /\ s_sequences' = s.sequences
    /\ s_isRecording' = s.isRecording
    /\ s_currentRecordingSequence' = s.currentRecordingSequence
    /\ s_out' = s.out
    /\ s_written' = s.written
    /\ UNCHANGED <<nbVars, bVars, cVars, pVars>>

\* the angles one of the stepping loops of lines 803-813 writes
s_steps(jointIndex, from, to) ==
    IF from < to
    THEN [i \in 1..(to - from + 1) |-> <<jointIndex, from + i - 1>>]
    ELSE [i \in 1..(from - to + 1) |-> <<jointIndex, from - i + 1>>]

\* moveServo, lines 783-817; emergencyStop does not change while it runs
s_moveServo(s, jointIndex, targetAngle) ==
    IF s.emergencyStop THEN println(s, ErrorLine("Emergency stop active"))
    ELSE IF jointIndex \notin Joints THEN s
    ELSE LET currentAngle == s.jointPositions[jointIndex]
             s1 == IF currentAngle # targetAngle
                   THEN [s EXCEPT !.written =
                            @ \o s_steps(jointIndex, currentAngle, targetAngle)]
                   ELSE s
         IN  [s1 EXCEPT !.jointPositions[jointIndex] = targetAngle]

RECURSIVE s_writeAllFrom(_, _, _)
\* the loop shared by setupHome, minServos and maxServos, lines 684-736
s_writeAllFrom(s, pose, i) ==
    IF i >= 6 THEN s
    ELSE s_writeAllFrom([servoWrite(s, i, pose[i]) EXCEPT !.jointPositions[i] = pose[i]],
                        pose, i + 1)

s_setupHome(s) == s_writeAllFrom(s, HOME_POSITIONS, 0)

s_minServos(s) == s_writeAllFrom(s, JOINT_MIN, 0)

s_maxServos(s) == s_writeAllFrom(s, JOINT_MAX, 0)

RECURSIVE s_waveFrom(_, _)
\* waveServos, lines 752-762
s_waveFrom(s, wave) ==
    IF wave >= 3 \/ s.emergencyStop THEN s
    ELSE s_waveFrom(s_moveServo(s_moveServo(s, 0, 60), 0, 120), wave + 1)

RECURSIVE s_returnFrom(_, _, _)
\* waveServos, lines 765-768
s_returnFrom(s, originalPositions, i) ==
    IF i >= 6 \/ s.emergencyStop THEN s
    ELSE s_returnFrom(s_moveServo(s, i, originalPositions[i]), originalPositions, i + 1)

\* waveServos, lines 738-769
s_waveServos(s) ==
    LET originalPositions == s.jointPositions
        s1 == s_moveServo(s_moveServo(s_moveServo(s_moveServo(s, 1, 120), 2, 90), 3, 90),
                          4, 60)
    IN  s_returnFrom(s_waveFrom(s1, 0), originalPositions, 0)

\* sendStatus, lines 927-937
s_sendStatus(s) ==
    println(s, OkLine("STATUS", [i \in 1..6 |-> s.jointPositions[i - 1]]))

\* createSequence, lines 947-954, is the text of lines 363-370
s_createSequence(s, index, name) == createSequence(s, index, name)

\* addSequencePoint, lines 956-969, is the text of lines 372-385
s_addSequencePoint(s, sequenceIndex, delay_ms) ==
    addSequencePoint(s, sequenceIndex, delay_ms)

\* listSequences, lines 993-1002, is the text of lines 456-465
s_listSequences(s) == listSequences(s)

RECURSIVE s_playJointsFrom(_, _, _)
\* playSequence, lines 980-983
s_playJointsFrom(s, point, j) ==
    IF j >= 6 \/ s.emergencyStop THEN s
    ELSE s_playJointsFrom(s_moveServo(s, j, point.joints[j]), point, j + 1)

RECURSIVE s_playFrom(_, _, _)
\* playSequence, lines 976-988
s_playFrom(s, sequenceIndex, i) ==
    IF i >= s.sequences[sequenceIndex].length \/ s.emergencyStop THEN s
    ELSE s_playFrom(
             s_playJointsFrom(s, s.sequences[sequenceIndex].points[i], 0),
             sequenceIndex, i + 1)

\* playSequence returns false exactly for a slot out of range or not valid
s_playSequenceOk(s, sequenceIndex) ==
    /\ ~(sequenceIndex < 0 \/ sequenceIndex >= MAX_SEQUENCES)
    /\ s.sequences[sequenceIndex].valid

\* playSequence, lines 972-991
s_playSequence(s, sequenceIndex) ==
    IF s_playSequenceOk(s, sequenceIndex) THEN s_playFrom(s, sequenceIndex, 0) ELSE s

\* processJointCommand, lines 871-924; currentMovement.active is never set in
\* this sketch, so the test of line 909 is always false
s_processJointCommand(s, command) ==
    LET colonIndex == indexOf(command, ":")
        jointStr == substring(command, 1, colonIndex)
        angleStr == substringFrom(command, colonIndex + 1)
        jointIndex == toInt(jointStr) - 1
        targetAngle == toInt(angleStr)
    IN  IF colonIndex = -1 \/ colonIndex = 1
        THEN println(s, ErrorLine("Invalid joint command format. Use J1:90 format"))
        ELSE IF Len(jointStr) # 1 \/ ~isDigit(charAt(jointStr, 0))
        THEN println(s, ErrorLine("Invalid joint number. Use 1-6"))
        ELSE IF Len(angleStr) = 0
        THEN println(s, ErrorLine("Missing angle value"))
        ELSE IF ~allDigits(angleStr)
        THEN println(s, ErrorLine("Angle must be numeric"))
        ELSE IF jointIndex < 0 \/ jointIndex >= 6
        THEN println(s, ErrorLine("Joint number must be 1-6"))
        ELSE LET s1 == s_moveServo(s, jointIndex, targetAngle)
                 s2 == IF s1.isRecording /\ s1.currentRecordingSequence >= 0
                       THEN s_addSequencePoint(s1, s1.currentRecordingSequence,
                                               s1.MOVE_SPEED)
                       ELSE s1
             IN  s_sendStatus(s2)

\* processSetSpeedCommand, lines 1006-1027
s_processSetSpeedCommand(s, command) ==
    LET colonIndex == indexOf(command, ":")
        speedStr == substringFrom(command, colonIndex + 1)
        newSpeed == toInt(speedStr)
    IN  IF colonIndex = -1
        THEN println(s, ErrorLine("Invalid SET_SPEED format. Use SET_SPEED:15"))
        ELSE IF newSpeed < 5 \/ newSpeed > 200
        THEN println(s, ErrorLine("Speed must be between 5 and 200 ms"))
        ELSE println([s EXCEPT !.MOVE_SPEED = newSpeed],
                     OkLine("Movement speed set to", <<newSpeed>>))

\* processRecordStartCommand, lines 1029-1057
s_processRecordStartCommand(s, command) ==
    LET firstColon == indexOf(command, ":")
        secondColon == indexOfFrom(command, ":", firstColon + 1)
        indexStr == substring(command, firstColon + 1, secondColon)
        nameStr == substringFrom(command, secondColon + 1)
        sequenceIndex == toInt(indexStr)
    IN  IF firstColon = -1 \/ secondColon = -1
        THEN println(s, ErrorLine("Invalid RECORD_START format"))
        ELSE IF sequenceIndex < 0 \/ sequenceIndex >= MAX_SEQUENCES
        THEN println(s, ErrorLine("Invalid sequence index"))
        ELSE IF createSequenceOk(sequenceIndex)
        THEN println([s_createSequence(s, sequenceIndex, nameStr)
                         EXCEPT !.isRecording = TRUE,
                                !.currentRecordingSequence = sequenceIndex],
                     OkLine("Recording started for sequence", <<sequenceIndex>>))
        ELSE println(s, ErrorLine("Failed to create sequence"))

\* processPlaySequenceCommand, lines 1059-1078
s_processPlaySequenceCommand(s, command) ==
    LET colonIndex == indexOf(command, ":")
        indexStr == substringFrom(command, colonIndex + 1)
        sequenceIndex == toInt(indexStr)
    IN  IF colonIndex = -1
        THEN println(s, ErrorLine("Invalid PLAY_SEQUENCE format. Use PLAY_SEQUENCE:0"))
        ELSE IF s_playSequenceOk(s, sequenceIndex)
        THEN s_sendStatus(println(s_playSequence(s, sequenceIndex),
                                  OkLine("Sequence completed", <<sequenceIndex>>)))
        ELSE println(s, ErrorLine("Failed to play sequence"))

\* processDeleteSequenceCommand, lines 1080-1103
s_processDeleteSequenceCommand(s, command) ==
    LET colonIndex == indexOf(command, ":")
        indexStr == substringFrom(command, colonIndex + 1)
        sequenceIndex == toInt(indexStr)
    IN  IF colonIndex = -1
        THEN println(s, ErrorLine("Invalid DELETE_SEQUENCE format"))
        ELSE IF sequenceIndex < 0 \/ sequenceIndex >= MAX_SEQUENCES
        THEN println(s, ErrorLine("Invalid sequence index"))
        ELSE println([s EXCEPT !.sequences[sequenceIndex].valid = FALSE,
                               !.sequences[sequenceIndex].length = 0],
                     OkLine("Sequence deleted", <<sequenceIndex>>))

\* the STOP branch of processCommand, lines 833-838
s_stopCommand(s) ==
    s_sendStatus(
        [println([s EXCEPT !.emergencyStop = TRUE, !.isRecording = FALSE],
                 ErrorLine("Emergency stop activated"))
            EXCEPT !.emergencyStop = FALSE])

\* processCommand, lines 820-868
s_processCommand(s, line) ==
    LET command == normalize(line)
    IN  IF Len(command) = 0 THEN s
        ELSE IF startsWith(command, CMD_JOINT_PREFIX) THEN s_processJointCommand(s, command)
        ELSE IF command = CMD_HOME THEN s_sendStatus(s_setupHome(s))
        ELSE IF command = CMD_STOP THEN s_stopCommand(s)
        ELSE IF command = CMD_STATUS THEN s_sendStatus(s)
        ELSE IF command = CMD_MIN THEN s_sendStatus(s_minServos(s))
        ELSE IF command = CMD_MAX THEN s_sendStatus(s_maxServos(s))
        ELSE IF command = CMD_WAVE THEN s_sendStatus(s_waveServos(s))
        ELSE IF startsWith(command, CMD_SET_SPEED) THEN s_processSetSpeedCommand(s, command)
        ELSE IF startsWith(command, CMD_RECORD_START)
        THEN s_processRecordStartCommand(s, command)
        ELSE IF command = CMD_RECORD_STOP
        THEN println([s EXCEPT !.isRecording = FALSE], OkLine("Recording stopped", <<>>))
        ELSE IF startsWith(command, CMD_PLAY_SEQUENCE)
        THEN s_processPlaySequenceCommand(s, command)
        ELSE IF command = CMD_LIST_SEQUENCES THEN s_listSequences(s)
        ELSE IF startsWith(command, CMD_DELETE_SEQUENCE)
        THEN s_processDeleteSequenceCommand(s, command)
        ELSE println(s, Line(RESP_ERROR, "Unknown command: " \o command, <<>>))

\* loop(), lines 664-671, with a complete line waiting
SLoopCommand(line) ==
    /\ s_cmdCount < MaxSpeedCommands
    /\ s_Commit(s_processCommand(s_State, line))
    /\ s_lastLine' = line
    /\ s_cmdCount' = s_cmdCount + 1

SpeedInit == NbInit /\ b_setup /\ s_setup /\ c_setup /\ p_setup

SpeedNext == \E line \in SpeedLines : SLoopCommand(line)

SpeedSpec == SpeedInit /\ [][SpeedNext]_vars

(***************************************************************************)
(* The choreography sketch (src/unnamed/part_001)                          *)
(*                                                                         *)
(* The sketch is the blocking one with seven prebuilt sequences added.     *)
(* moveServo blocks and serialEvent runs between two passes of loop(), so  *)
(* a command runs to its end before the next line is seen: one action per  *)
(* command.  The header that defines CMD_PICK_SEQUENCE ... CMD_FOLD is not *)
(* among the sources; the texts are the ones the README gives              *)
(* (src/README.md, lines 618-624).                                         *)
(***************************************************************************)
CMD_PICK_SEQUENCE == "PICK_SEQUENCE"

CMD_PLACE_SEQUENCE == "PLACE_SEQUENCE"

CMD_WAVE_SEQUENCE == "WAVE_SEQUENCE"

CMD_INSPECT_SEQUENCE == "INSPECT_SEQUENCE"

CMD_DRAW_CIRCLE == "DRAW_CIRCLE"

CMD_RESET_SEQUENCE == "RESET_SEQUENCE"

CMD_FOLD == "FOLD"

\* the delay between two steps of moveServo, in ms
MOVE_SPEED == 50

\* the lines the host may send
ChoreoLines ==
    {"J1:170", "J1:20", "J1:200", "J2:100", "HOME", "STOP", "STATUS",
     "PICK_SEQUENCE", "PLACE_SEQUENCE", "WAVE_SEQUENCE", "INSPECT_SEQUENCE",
     "DRAW_CIRCLE", "RESET_SEQUENCE", "FOLD", "RECORD_START:0:A",
     "RECORD_STOP", "PLAY_SEQUENCE:0", "LIST_SEQUENCES", "DELETE_SEQUENCE:0",
     "DANCE"}

\* radius * cos(angle) and radius * 0.5 * sin(angle) are exact integers at
\* i = 8 and at i = 4, 12; there the float product is either that integer or
\* just short of it, by the accuracy of the library's cos and sin, and (int)
\* truncates toward zero: the shortfall of the truncated value is 0 or 1
FloatShort == {0, 1}

c_State ==
    [jointPositions |-> c_jointPositions,
     emergencyStop |-> c_emergencyStop,
     movementInProgress |-> c_movementInProgress,
     sequences |-> c_sequences,
     isRecording |-> c_isRecording,
     currentRecordingSequence |-> c_currentRecordingSequence,
     out |-> <<>>,
     written |-> <<>>,
     targets |-> <<>>]

c_Commit(s) ==
    /\ c_jointPositions' = s.jointPositions
    /\ c_emergencyStop' = s.emergencyStop
    /\ c_movementInProgress' = s.movementInProgress
    /\ c_sequences' = s.sequences
    /\ c_isRecording' = s.isRecording
    /\ c_currentRecordingSequence' = s.currentRecordingSequence
    /\ c_out' = s.out
    /\ c_written' = s.written
    /\ c_targets' = s.targets
    /\ UNCHANGED <<nbVars, bVars, sVars, pVars>>

\* moveServo, lines 149-183, is the text of part_003, lines 783-817; the
\* call is logged with its target once the joint index has passed the switch
c_moveServo(s, jointIndex, targetAngle) ==
    IF s.emergencyStop \/ jointIndex \notin Joints
    THEN s_moveServo(s, jointIndex, targetAngle)
    ELSE [s_moveServo(s, jointIndex, targetAngle)
             EXCEPT !.targets = Append(@, <<jointIndex, targetAngle>>)]

RECURSIVE c_moveAll(_, _)
\* a run of moveServo calls, in the order of the code
c_moveAll(s, moves) ==
    IF moves = <<>> THEN s
    ELSE c_moveAll(c_moveServo(s, Head(moves)[1], Head(moves)[2]), Tail(moves))

\* setupHome, lines 118-135
c_setupHome(s) ==
    [s_writeAllFrom([s EXCEPT !.movementInProgress = TRUE], HOME_POSITIONS, 0)
        EXCEPT !.movementInProgress = FALSE]

\* sendStatus, lines 352-362, is the text of part_003, lines 927-937
c_sendStatus(s) == s_sendStatus(s)

RECURSIVE c_playJointsFrom(_, _, _)
\* playSequence, lines 405-408
c_playJointsFrom(s, point, j) ==
    IF j >= 6 \/ s.emergencyStop THEN s
    ELSE c_playJointsFrom(c_moveServo(s, j, point.joints[j]), point, j + 1)

RECURSIVE c_playFrom(_, _, _)
\* playSequence, lines 401-414
c_playFrom(s, sequenceIndex, i) ==
    IF i >= s.sequences[sequenceIndex].length \/ s.emergencyStop THEN s
    ELSE c_playFrom(
             c_playJointsFrom(s, s.sequences[sequenceIndex].points[i], 0),
             sequenceIndex, i + 1)

\* playSequence, lines 397-416, is the text of part_003, lines 972-991
c_playSequence(s, sequenceIndex) ==
    IF s_playSequenceOk(s, sequenceIndex) THEN c_playFrom(s, sequenceIndex, 0) ELSE s

\* playPickSequence, lines 430-452
playPickSequence(s) ==
    println(
        c_moveAll(println(s, OkLine("Starting PICK_SEQUENCE", <<>>)),
                  <<<<0, 60>>, <<1, 90>>, <<2, 120>>, <<3, 90>>, <<4, 90>>,
                    <<5, 120>>, <<2, 135>>, <<5, 160>>, <<1, 70>>, <<2, 100>>>>),
        OkLine("PICK_SEQUENCE completed", <<>>))

\* playPlaceSequence, lines 454-479
playPlaceSequence(s) ==
    println(
        c_moveAll(println(s, OkLine("Starting PLACE_SEQUENCE", <<>>)),
                  <<<<0, 120>>, <<1, 80>>, <<2, 110>>, <<3, 100>>, <<4, 95>>,
                    <<1, 95>>, <<2, 135>>, <<5, 120>>, <<1, 70>>, <<2, 100>>>>),
        OkLine("PLACE_SEQUENCE completed", <<>>))

\* playWaveSequence, lines 481-506
playWaveSequence(s) ==
    LET basePos == s.jointPositions[0]
        left == <<0, basePos - 30>>
        right == <<0, basePos + 30>>
    IN  println(
            c_moveAll(println(s, OkLine("Starting WAVE_SEQUENCE", <<>>)),
                      <<<<1, 60>>, <<2, 80>>, <<3, 90>>, <<4, 45>>, <<5, 120>>,
                        left, right, left, right, left, right,
                        <<0, basePos>>>>),
            OkLine("WAVE_SEQUENCE completed", <<>>))

\* playInspectSequence, lines 508-527
playInspectSequence(s) ==
    println(
        c_moveAll(println(s, OkLine("Starting INSPECT_SEQUENCE", <<>>)),
                  [k \in 1..19 |-> <<0, 10 * (k - 1)>>]
                  \o [k \in 1..19 |-> <<0, 180 - 10 * (k - 1)>>]
                  \o <<<<0, 90>>>>),
        OkLine("INSPECT_SEQUENCE completed", <<>>))

\* constrain(x, a, b) of Arduino.h
constrain(x, a, b) == IF x < a THEN a ELSE IF x > b THEN b ELSE x

\* (int)(radius * cos(angle)) of line 545, radius = 20, angle = i * 2 PI / 16
circleCos(i, short) ==
    IF i = 8 THEN -(20 - short)
    ELSE <<20, 18, 14, 7, 0, -7, -14, -18, -20, -18, -14, -7, 0, 7, 14, 18>>[i + 1]

\* (int)(radius * 0.5 * sin(angle)) of line 546
circleSin(i, short) ==
    IF i = 4 THEN 10 - short
    ELSE IF i = 12 THEN -(10 - short)
    ELSE <<0, 3, 7, 9, 10, 9, 7, 3, 0, -3, -7, -9, -10, -9, -7, -3>>[i + 1]

\* the moves of the loop of lines 543-555
circleMoves(short) ==
    LET centerX == 90
        centerY == 90
        point(i) ==
            <<<<0, constrain(centerX + circleCos(i, short), JOINT_MIN[0], JOINT_MAX[0])>>,
              <<1, constrain(centerY + circleSin(i, short), JOINT_MIN[1], JOINT_MAX[1])>>>>
        RECURSIVE from(_)
        from(i) == IF i >= 16 THEN <<>> ELSE point(i) \o from(i + 1)
    IN  from(0)

\* playDrawCircle, lines 529-559
playDrawCircle(s, short) ==
    println(
        c_moveAll(println(s, OkLine("Starting DRAW_CIRCLE", <<>>)),
                  <<<<1, 90>>, <<2, 100>>, <<3, 90>>, <<4, 90>>, <<5, 140>>>>
                  \o circleMoves(short)),
        OkLine("DRAW_CIRCLE completed", <<>>))

\* playResetSequence, lines 561-570
playResetSequence(s) ==
    println(
        c_moveAll(println(s, OkLine("Starting RESET_SEQUENCE", <<>>)),
                  [k \in 1..6 |-> <<k - 1, HOME_POSITIONS[k - 1]>>]),
        OkLine("RESET_SEQUENCE completed", <<>>))

RECURSIVE foldFrom(_, _)
\* the loop of lines 585-593 of foldArm
foldFrom(s, i) ==
    IF i >= 6 THEN s
    ELSE foldFrom(
             c_moveServo(println(s, Line("", "Moving joint to", <<i + 1, JOINT_MIN[i]>>)),
                         i, JOINT_MIN[i]),
             i + 1)

\* foldArm, lines 572-595
foldArm(s) ==
    println(
        foldFrom(
            println(println(s, OkLine("Starting FOLD - Moving to minimum positions", <<>>)),
                    Line("", "Joint mins: ", [i \in 1..6 |-> JOINT_MIN[i - 1]])),
            0),
        OkLine("FOLD completed - Arm in minimum position", <<>>))

\* one of the seven branches of processCommand, lines 219-288, around the
\* sequence it plays
c_prebuilt(s, played) ==
    IF ~s.movementInProgress
    THEN c_sendStatus([played EXCEPT !.movementInProgress = FALSE])
    ELSE println(s, Line(RESP_ERROR, "Movement in progress, cannot start sequence", <<>>))

\* processJointCommand, lines 296-349; currentMovement.active is never set in
\* this sketch, so the test of line 334 is always false
c_processJointCommand(s, command) ==
    LET colonIndex == indexOf(command, ":")
        jointStr == substring(command, 1, colonIndex)
        angleStr == substringFrom(command, colonIndex + 1)
        jointIndex == toInt(jointStr) - 1
        targetAngle == toInt(angleStr)
    IN  IF colonIndex = -1 \/ colonIndex = 1
        THEN println(s, ErrorLine("Invalid joint command format. Use J1:90 format"))
        ELSE IF Len(jointStr) # 1 \/ ~isDigit(charAt(jointStr, 0))
        THEN println(s, ErrorLine("Invalid joint number. Use 1-6"))
        ELSE IF Len(angleStr) = 0
        THEN println(s, ErrorLine("Missing angle value"))
        ELSE IF ~allDigits(angleStr)
        THEN println(s, ErrorLine("Angle must be numeric"))
        ELSE IF jointIndex < 0 \/ jointIndex >= 6
        THEN println(s, ErrorLine("Joint number must be 1-6"))
        ELSE LET s1 == c_moveServo(s, jointIndex, targetAngle)
                 s2 == IF s1.isRecording /\ s1.currentRecordingSequence >= 0
                       THEN addSequencePoint(s1, s1.currentRecordingSequence, MOVE_SPEED)
                       ELSE s1
             IN  c_sendStatus(s2)

\* processRecordStartCommand, lines 598-626, is the text of part_003, lines
\* 1029-1057
c_processRecordStartCommand(s, command) == s_processRecordStartCommand(s, command)

\* processPlaySequenceCommand, lines 628-649
c_processPlaySequenceCommand(s, command) ==
    LET colonIndex == indexOf(command, ":")
        indexStr == substringFrom(command, colonIndex + 1)
        sequenceIndex == toInt(indexStr)
        s1 == [s EXCEPT !.movementInProgress = TRUE]
        s2 == IF s_playSequenceOk(s1, sequenceIndex)
              THEN c_sendStatus(println(c_playSequence(s1, sequenceIndex),
                                        OkLine("Sequence completed", <<sequenceIndex>>)))
              ELSE println(s1, ErrorLine("Failed to play sequence"))
    IN  IF colonIndex = -1
        THEN println(s, ErrorLine("Invalid PLAY_SEQUENCE format. Use PLAY_SEQUENCE:0"))
        ELSE [s2 EXCEPT !.movementInProgress = FALSE]

\* processDeleteSequenceCommand, lines 651-673, is the text of part_003,
\* lines 1080-1103
c_processDeleteSequenceCommand(s, command) == s_processDeleteSequenceCommand(s, command)

\* the STOP branch of processCommand, lines 199-205
c_stopCommand(s) == s_stopCommand(s)

\* processCommand, lines 186-293
c_processCommand(s, line, short) ==
    LET command == normalize(line)
        busy == [s EXCEPT !.movementInProgress = TRUE]
    IN  IF Len(command) = 0 THEN s
        ELSE IF startsWith(command, CMD_JOINT_PREFIX) THEN c_processJointCommand(s, command)
        ELSE IF command = CMD_HOME THEN c_sendStatus(c_setupHome(s))
        ELSE IF command = CMD_STOP THEN c_stopCommand(s)
        ELSE IF command = CMD_STATUS THEN c_sendStatus(s)
        ELSE IF startsWith(command, CMD_RECORD_START)
        THEN c_processRecordStartCommand(s, command)
        ELSE IF command = CMD_RECORD_STOP
        THEN println([s EXCEPT !.isRecording = FALSE], OkLine("Recording stopped", <<>>))
        ELSE IF startsWith(command, CMD_PLAY_SEQUENCE)
        THEN c_processPlaySequenceCommand(s, command)
        ELSE IF command = CMD_LIST_SEQUENCES THEN listSequences(s)
        ELSE IF startsWith(command, CMD_DELETE_SEQUENCE)
        THEN c_processDeleteSequenceCommand(s, command)
        ELSE IF command = CMD_PICK_SEQUENCE THEN c_prebuilt(s, playPickSequence(busy))
        ELSE IF command = CMD_PLACE_SEQUENCE THEN c_prebuilt(s, playPlaceSequence(busy))
        ELSE IF command = CMD_WAVE_SEQUENCE THEN c_prebuilt(s, playWaveSequence(busy))
        ELSE IF command = CMD_INSPECT_SEQUENCE THEN c_prebuilt(s, playInspectSequence(busy))
        ELSE IF command = CMD_DRAW_CIRCLE THEN c_prebuilt(s, playDrawCircle(busy, short))
        ELSE IF command = CMD_RESET_SEQUENCE THEN c_prebuilt(s, playResetSequence(busy))
        ELSE IF command = CMD_FOLD THEN c_prebuilt(s, foldArm(busy))
        ELSE println(s, Line(RESP_ERROR, "Unknown command: " \o command, <<>>))

\* loop(), lines 98-105, with a complete line waiting
CLoopCommand(line) ==
    /\ c_cmdCount < MaxChoreoCommands
    /\ \E short \in FloatShort : c_Commit(c_processCommand(c_State, line, short))
    /\ c_lastLine' = line
    /\ c_cmdCount' = c_cmdCount + 1
    /\ UNCHANGED <<c_inputString, c_stringComplete, c_rx, c_pc, c_sent, c_sentDuring>>

ChoreoInit == NbInit /\ b_setup /\ s_setup /\ c_setup /\ p_setup

ChoreoNext == \E line \in ChoreoLines : CLoopCommand(line)

ChoreoSpec == ChoreoInit /\ [][ChoreoNext]_vars

(***************************************************************************)
(* The choreography sketch with its serial input                           *)
(*                                                                         *)
(* loop() does not return before the command it dispatched has run to its  *)
(* end, and serialEvent() runs between two passes of loop(): a line the    *)
(* host sends while a command runs waits in the UART until then.           *)
(***************************************************************************)
\* the lines the host may send
ChoreoSerialLines == {"PICK_SEQUENCE", "WAVE_SEQUENCE", "STATUS", "STOP"}

\* serialEvent, lines 677-686, is the text of code.ino, lines 208-217
c_serialEvent(s) == b_serialEvent(s)

\* the host sends a line while loop() is not running a command
CArrive(line) ==
    /\ c_sent < MaxChoreoSent
    /\ c_rx' = c_rx \o line \o "\n"
    /\ c_sent' = c_sent + 1
    /\ UNCHANGED <<c_jointPositions, c_emergencyStop, c_movementInProgress,
                   c_sequences, c_isRecording, c_currentRecordingSequence, c_out,
                   c_written, c_targets, c_lastLine, c_cmdCount, c_inputString,
                   c_stringComplete, c_pc, c_sentDuring>>
    /\ UNCHANGED <<nbVars, bVars, sVars, pVars>>

\* loop(), lines 98-105, with a complete line waiting; the host may send
\* one more line while the command runs
CLoopRun(during) ==
    /\ c_pc = "loop"
    /\ c_stringComplete
    /\ during # "" => c_sent < MaxChoreoSent
    /\ \E short \in FloatShort : c_Commit(c_processCommand(c_State, c_inputString, short))
    /\ c_lastLine' = c_inputString
    /\ c_cmdCount' = c_cmdCount + 1
    /\ c_inputString' = ""
    /\ c_stringComplete' = FALSE
    /\ c_rx' = IF during = "" THEN c_rx ELSE c_rx \o during \o "\n"
    /\ c_sent' = IF during = "" THEN c_sent ELSE c_sent + 1
    /\ c_sentDuring' = during
    /\ c_pc' = "event"

\* loop(), line 100, when stringComplete is false
CLoopIdle ==
    /\ c_pc = "loop"
    /\ ~c_stringComplete
    /\ c_pc' = "event"
    /\ UNCHANGED <<c_jointPositions, c_emergencyStop, c_movementInProgress,
                   c_sequences, c_isRecording, c_currentRecordingSequence, c_out,
                   c_written, c_targets, c_lastLine, c_cmdCount, c_inputString,
                   c_stringComplete, c_rx, c_sent, c_sentDuring>>
    /\ UNCHANGED <<nbVars, bVars, sVars, pVars>>

\* serialEvent runs after loop() has returned
CSerialEvent ==
    /\ c_pc = "event"
    /\ LET s == c_serialEvent([rx |-> c_rx, inputString |-> c_inputString,
                               stringComplete |-> c_stringComplete])
       IN  /\ c_rx' = s.rx
           /\ c_inputString' = s.inputString
           /\ c_stringComplete' = s.stringComplete
    /\ c_pc' = "loop"
    /\ UNCHANGED <<c_jointPositions, c_emergencyStop, c_movementInProgress,
                   c_sequences, c_isRecording, c_currentRecordingSequence, c_out,
                   c_written, c_targets, c_lastLine, c_cmdCount, c_sent,
                   c_sentDuring>>
    /\ UNCHANGED <<nbVars, bVars, sVars, pVars>>

ChoreoSerialNext ==
    \/ \E line \in ChoreoSerialLines : CArrive(line)
    \/ \E during \in ChoreoSerialLines \cup {""} : CLoopRun(during)
    \/ CLoopIdle
    \/ CSerialEvent

ChoreoSerialSpec == ChoreoInit /\ [][ChoreoSerialNext]_vars

(***************************************************************************)
(* The blocking sequence sketch (src/unnamed/part_002)                     *)
(*                                                                         *)
(* loop() handles one complete line per iteration and every move blocks    *)
(* until it is done; serialEvent only runs between two iterations, so no   *)
(* STOP is seen while a move or a playback is under way.                   *)
(***************************************************************************)
p_State ==
    [jointPositions |-> p_jointPositions,
     emergencyStop |-> p_emergencyStop,
     movementInProgress |-> p_movementInProgress,
     sequences |-> p_sequences,
     isRecording |-> p_isRecording,
     currentRecordingSequence |-> p_currentRecordingSequence,
     out |-> <<>>,
     written |-> <<>>,
     poses |-> <<>>]

\* moveServo, part_002 lines 118-154; emergencyStop does not change while
\* it runs
p_moveServo(s, jointIndex, targetAngle) ==
    IF s.emergencyStop THEN println(s, ErrorLine("Emergency stop active"))
    ELSE IF jointIndex \notin Joints THEN s
    ELSE LET currentAngle == s.jointPositions[jointIndex]
             s1 == IF currentAngle # targetAngle
                   THEN [s EXCEPT !.written =
                            @ \o s_steps(jointIndex, currentAngle, targetAngle)]
                   ELSE s
         IN  [s1 EXCEPT !.jointPositions[jointIndex] = targetAngle,
                        !.movementInProgress = FALSE]

RECURSIVE p_setupHomeFrom(_, _)
\* setupHome, part_002 lines 110-115
p_setupHomeFrom(s, i) ==
    IF i >= 6 THEN s
    ELSE p_setupHomeFrom(
             [p_moveServo(s, i, HOME_POSITIONS[i])
                 EXCEPT !.jointPositions[i] = HOME_POSITIONS[i]],
             i + 1)

p_setupHome(s) == p_setupHomeFrom(s, 0)

\* sendStatus, part_002 lines 240-250
p_sendStatus(s) ==
    println(s, OkLine("STATUS", [i \in 1..6 |-> s.jointPositions[i - 1]]))

\* createSequence, part_002 lines 260-267
p_createSequence(s, index, name) ==
    IF index < 0 \/ index >= p_MAX_SEQUENCES THEN s
    ELSE [s EXCEPT !.sequences[index].name = toCharArray(name, SEQUENCE_NAME_LENGTH),
                   !.sequences[index].length = 0,
                   !.sequences[index].valid = TRUE]

\* an addSequencePoint that stores the home pose instead of the current one
p_addSequencePointHome(s, sequenceIndex, delay_ms) ==
    IF sequenceIndex < 0 \/ sequenceIndex >= p_MAX_SEQUENCES THEN s
    ELSE IF ~s.sequences[sequenceIndex].valid THEN s
    ELSE IF s.sequences[sequenceIndex].length >= p_MAX_SEQUENCE_LENGTH THEN s
    ELSE LET pointIndex == s.sequences[sequenceIndex].length
         IN  [s EXCEPT !.sequences[sequenceIndex].points =
                           p_pointPut(@, pointIndex,
                                      [joints |-> HOME_POSITIONS,
                                       delay_ms |-> delay_ms]),
                       !.sequences[sequenceIndex].length = IntWrap16(@ + 1)]

\* addSequencePoint, part_002 lines 269-282
p_addSequencePoint(s, sequenceIndex, delay_ms) ==
    IF sequenceIndex < 0 \/ sequenceIndex >= p_MAX_SEQUENCES THEN s
    ELSE IF ~s.sequences[sequenceIndex].valid THEN s
    ELSE IF s.sequences[sequenceIndex].length >= p_MAX_SEQUENCE_LENGTH THEN s
    ELSE LET pointIndex == s.sequences[sequenceIndex].length
         IN  [s EXCEPT !.sequences[sequenceIndex].points =
                           p_pointPut(@, pointIndex,
                                      [joints |-> s.jointPositions,
                                       delay_ms |-> delay_ms]),
                       !.sequences[sequenceIndex].length = IntWrap16(@ + 1)]

\* playSequence returns true exactly when the slot exists and is valid
p_playSequenceOk(s, sequenceIndex) ==
    /\ ~(sequenceIndex < 0 \/ sequenceIndex >= p_MAX_SEQUENCES)
    /\ s.sequences[sequenceIndex].valid

RECURSIVE p_playJointsFrom(_, _, _)
\* playSequence, part_002 lines 292-295
p_playJointsFrom(s, point, j) ==
    IF j >= 6 \/ s.emergencyStop THEN s
    ELSE p_playJointsFrom(p_moveServo(s, j, point.joints[j]), point, j + 1)

RECURSIVE p_playFrom(_, _, _)
\* playSequence, part_002 lines 288-300; poses logs the pose the arm has
\* when the waypoint's six moves are done
p_playFrom(s, sequenceIndex, i) ==
    IF i >= s.sequences[sequenceIndex].length \/ s.emergencyStop THEN s
    ELSE LET s1 == p_playJointsFrom(
                       s, p_pointAt(s.sequences[sequenceIndex].points, i), 0)
         IN  p_playFrom([s1 EXCEPT !.poses = Append(@, s1.jointPositions)],
                        sequenceIndex, i + 1)

\* playSequence, part_002 lines 284-303
p_playSequence(s, sequenceIndex) ==
    IF p_playSequenceOk(s, sequenceIndex) THEN p_playFrom(s, sequenceIndex, 0) ELSE s

RECURSIVE p_listSequencesFrom(_, _)
\* listSequences, part_002 lines 307-313
p_listSequencesFrom(s, i) ==
    IF i >= p_MAX_SEQUENCES THEN s
    ELSE p_listSequencesFrom(
             IF s.sequences[i].valid
             THEN println(s, Line("", s.sequences[i].name, <<i>>))
             ELSE s,
             i + 1)

\* listSequences, part_002 lines 305-314
p_listSequences(s) ==
    p_listSequencesFrom(println(s, Line(RESP_SEQUENCE, "", <<>>)), 0)

\* processJointCommand, part_002 lines 196-237
p_processJointCommand(s, command) ==
    LET colonIndex == indexOf(command, ":")
        jointStr == substring(command, 1, colonIndex)
        angleStr == substringFrom(command, colonIndex + 1)
        jointIndex == IntWrap16(toInt(jointStr) - 1)
        targetAngle == toInt(angleStr)
    IN  IF colonIndex = -1
        THEN println(s, ErrorLine("Invalid joint command format"))
        ELSE IF jointIndex < 0 \/ jointIndex >= 6
        THEN println(s, ErrorLine("Invalid joint number (1-6)"))
        ELSE IF angleOutOfRange(jointIndex, targetAngle)
        THEN println(s, RangeErrorLine(jointIndex))
        ELSE LET s1 == p_moveServo(s, jointIndex, targetAngle)
                 s2 == IF s1.isRecording /\ s1.currentRecordingSequence >= 0
                       THEN p_addSequencePoint(s1, s1.currentRecordingSequence,
                                               MOVE_SPEED)
                       ELSE s1
             IN  p_sendStatus(s2)

\* processRecordStartCommand, part_002 lines 316-344
p_processRecordStartCommand(s, command) ==
    LET firstColon == indexOf(command, ":")
        secondColon == indexOfFrom(command, ":", firstColon + 1)
        indexStr == substring(command, firstColon + 1, secondColon)
        nameStr == substringFrom(command, secondColon + 1)
        sequenceIndex == toInt(indexStr)
    IN  IF firstColon = -1 \/ secondColon = -1
        THEN println(s, ErrorLine("Invalid RECORD_START format"))
        ELSE IF sequenceIndex < 0 \/ sequenceIndex >= p_MAX_SEQUENCES
        THEN println(s, ErrorLine("Invalid sequence index"))
        ELSE println([p_createSequence(s, sequenceIndex, nameStr)
                         EXCEPT !.isRecording = TRUE,
                                !.currentRecordingSequence = sequenceIndex],
                     OkLine("Recording started for sequence", <<sequenceIndex>>))

\* processPlaySequenceCommand, part_002 lines 346-365
p_processPlaySequenceCommand(s, command) ==
    LET colonIndex == indexOf(command, ":")
        indexStr == substringFrom(command, colonIndex + 1)
        sequenceIndex == toInt(indexStr)
    IN  IF colonIndex = -1
        THEN println(s, ErrorLine("Invalid PLAY_SEQUENCE format"))
        ELSE IF p_playSequenceOk(s, sequenceIndex)
        THEN p_sendStatus(println(p_playSequence(s, sequenceIndex),
                                  OkLine("Sequence completed", <<sequenceIndex>>)))
        ELSE println(s, ErrorLine("Failed to play sequence"))

\* processDeleteSequenceCommand, part_002 lines 367-389
p_processDeleteSequenceCommand(s, command) ==
    LET colonIndex == indexOf(command, ":")
        indexStr == substringFrom(command, colonIndex + 1)
        sequenceIndex == toInt(indexStr)
    IN  IF colonIndex = -1
        THEN println(s, ErrorLine("Invalid DELETE_SEQUENCE format"))
        ELSE IF sequenceIndex < 0 \/ sequenceIndex >= p_MAX_SEQUENCES
        THEN println(s, ErrorLine("Invalid sequence index"))
        ELSE println([s EXCEPT !.sequences[sequenceIndex].valid = FALSE,
                               !.sequences[sequenceIndex].length = 0],
                     OkLine("Sequence deleted", <<sequenceIndex>>))

\* the STOP branch of processCommand, part_002 lines 167-173
p_stopCommand(s) ==
    p_sendStatus(
        [println([s EXCEPT !.emergencyStop = TRUE, !.movementInProgress = FALSE],
                 ErrorLine("Emergency stop activated"))
            EXCEPT !.emergencyStop = FALSE])

\* processCommand, part_002 lines 157-193
p_processCommand(s, line) ==
    LET command == normalize(line)
    IN  IF startsWith(command, CMD_JOINT_PREFIX) THEN p_processJointCommand(s, command)
        ELSE IF command = CMD_HOME THEN p_sendStatus(p_setupHome(s))
        ELSE IF command = CMD_STOP THEN p_stopCommand(s)
        ELSE IF command = CMD_STATUS THEN p_sendStatus(s)
        ELSE IF startsWith(command, CMD_RECORD_START)
        THEN p_processRecordStartCommand(s, command)
        ELSE IF command = CMD_RECORD_STOP
        THEN println([s EXCEPT !.isRecording = FALSE], OkLine("Recording stopped", <<>>))
        ELSE IF startsWith(command, CMD_PLAY_SEQUENCE)
        THEN p_processPlaySequenceCommand(s, command)
        ELSE IF command = CMD_LIST_SEQUENCES THEN p_listSequences(s)
        ELSE IF startsWith(command, CMD_DELETE_SEQUENCE)
        THEN p_processDeleteSequenceCommand(s, command)
        ELSE println(s, ErrorLine("Invalid command"))

\* the slot an accepted RECORD_START or DELETE_SEQUENCE names in its reply
p_repliedSlot(s, text) ==
    IF Len(s.out) = 1 /\ s.out[1].prefix = RESP_OK /\ s.out[1].text = text
    THEN s.out[1].args[1]
    ELSE -1

\* the recording session as the host sees it on the serial line: an accepted
\* RECORD_START opens a session on its slot and empties the slot's recording,
\* RECORD_STOP closes the session, an accepted DELETE_SEQUENCE empties the
\* slot's recording and closes its session, and a J command answered with
\* the status line adds the pose that line reports to the open session
p_sessionAfter(s, line) ==
    LET command == normalize(line)
        started == p_repliedSlot(s, "Recording started for sequence")
        deleted == p_repliedSlot(s, "Sequence deleted")
    IN  IF started >= 0 THEN started
        ELSE IF command = CMD_RECORD_STOP THEN -1
        ELSE IF deleted >= 0 /\ deleted = p_session THEN -1
        ELSE p_session

p_recordedAfter(s, line) ==
    LET command == normalize(line)
        started == p_repliedSlot(s, "Recording started for sequence")
        deleted == p_repliedSlot(s, "Sequence deleted")
        moved == /\ startsWith(command, CMD_JOINT_PREFIX)
                 /\ Len(s.out) = 1
                 /\ s.out[1].prefix = RESP_OK
    IN  IF started >= 0 THEN [p_recorded EXCEPT ![started] = <<>>]
        ELSE IF deleted >= 0 THEN [p_recorded EXCEPT ![deleted] = <<>>]
        ELSE IF moved /\ p_session >= 0
        THEN [p_recorded EXCEPT ![p_session] =
                 Append(@, [j \in Joints |-> s.out[1].args[j + 1]])]
        ELSE p_recorded

p_Commit(s, line) ==
    /\ p_jointPositions' = s.jointPositions
    /\ p_emergencyStop' = s.emergencyStop
    /\ p_movementInProgress' = s.movementInProgress
    /\ p_sequences' = s.sequences
    /\ p_isRecording' = s.isRecording
    /\ p_currentRecordingSequence' = s.currentRecordingSequence
    /\ p_out' = s.out
    /\ p_written' = s.written
    /\ p_poses' = s.poses
    /\ p_lastLine' = line
    /\ p_cmdCount' = p_cmdCount + 1
    /\ p_session' = p_sessionAfter(s, line)
    /\ p_recorded' = p_recordedAfter(s, line)
    /\ UNCHANGED <<nbVars, bVars, sVars, cVars>>

\* lines sent to the blocking sequence sketch
PlanLines ==
    {"RECORD_START:0:A", "RECORD_START:1:B", "J1:93", "J2:86", "J1:181",
     "RECORD_STOP", "PLAY_SEQUENCE:0", "PLAY_SEQUENCE:1", "DELETE_SEQUENCE:0",
     "HOME", "STOP", "LIST_SEQUENCES", "STATUS", "NOP"}

\* one iteration of loop(), part_002 lines 90-97, with a complete line
PLoopCommand(line) ==
    /\ p_cmdCount < MaxPlanCommands
    /\ p_Commit(p_processCommand(p_State, line), line)

\* slot 0 one waypoint short of full and still being recorded: the state
\* after J2:86, RECORD_START:0:A and 49 more J2:86
p_NearlyFull ==
    /\ p_jointPositions = EarlierPose
    /\ p_emergencyStop = FALSE
    /\ p_movementInProgress = FALSE
    /\ p_sequences =
           [p_initializeSequences EXCEPT
               ![0] = [name |-> "A",
                       points |-> [k \in 1..(p_MAX_SEQUENCE_LENGTH - 1) |->
                                      [joints |-> EarlierPose,
                                       delay_ms |-> MOVE_SPEED]],
                       length |-> p_MAX_SEQUENCE_LENGTH - 1,
                       valid |-> TRUE]]
    /\ p_isRecording = TRUE
    /\ p_currentRecordingSequence = 0
    /\ p_out = <<OkLine("STATUS", [i \in 1..6 |-> EarlierPose[i - 1]])>>
    /\ p_written = <<>>
    /\ p_poses = <<>>
    /\ p_lastLine = "J2:86"
    /\ p_cmdCount = 0
    /\ p_session = 0
    /\ p_recorded =
           [i \in p_SequenceSlots |->
               IF i = 0 THEN [k \in 1..(p_MAX_SEQUENCE_LENGTH - 1) |-> EarlierPose]
               ELSE <<>>]

PlanInit == NbInit /\ b_setup /\ s_setup /\ c_setup /\ (p_setup \/ p_NearlyFull)

PlanNext == \E line \in PlanLines : PLoopCommand(line)

PlanSpec == PlanInit /\ [][PlanNext]_vars

(***************************************************************************)
(* C1  Every joint stays within its limits                                 *)
(***************************************************************************)
\* C1: in every reachable state of the non-blocking sketch each joint
\* position lies within [JOINT_MIN[j], JOINT_MAX[j]], whatever commands,
\* motion ticks and playback ticks have run.
C1_JointLimits ==
    \A j \in Joints :
        JOINT_MIN[j] <= jointPositions[j] /\ jointPositions[j] <= JOINT_MAX[j]

\* joint 1 has been stepped up to its maximum by the motion engine
C1_Witness ==
    /\ pc = "playback"
    /\ written = <<<<0, JOINT_MAX[0]>>>>
    /\ jointPositions[0] = JOINT_MAX[0]

(***************************************************************************)
(* How the claims name commands and steps                                  *)
(***************************************************************************)
IsStop(line) == normalize(line) = CMD_STOP

\* the 0-based joint a line of the form J<digit>:... addresses, else -1
JJoint(line) ==
    LET c == normalize(line)
    IN  IF startsWith(c, "J") /\ indexOf(c, ":") = 2 /\ isDigit(charAt(c, 1))
        THEN DigitValue(charAt(c, 1)) - 1
        ELSE -1

\* the decimal text after the colon of such a line
JAngleText(line) == substringFrom(normalize(line), 3)

\* a J line for a joint 1..6 whose angle is a number within the joint's limits
InRangeJ(line) ==
    /\ JJoint(line) \in Joints
    /\ Len(JAngleText(line)) \in 1..3
    /\ allDigits(JAngleText(line))
    /\ JOINT_MIN[JJoint(line)] <= toInt(JAngleText(line))
    /\ toInt(JAngleText(line)) <= JOINT_MAX[JJoint(line)]

\* this step is loop() dispatching a line
DispatchStep == pc = "command" /\ pc' = "motion" /\ handled'

\* this step is one of the two ticks of loop()
TickStep == pc \in {"motion", "playback"} /\ pc' # pc

\* the program state proper: everything but the logs and the bookkeeping
progState ==
    <<jointPositions, emergencyStop, movementInProgress, currentMovement,
      msSinceLastMovement, sequences, isRecording, currentRecordingSequence,
      currentPlayback, msSinceLastStep>>

(***************************************************************************)
(* C2  STOP during a playback                                              *)
(***************************************************************************)
\* C2: after the playback tick of a pass of loop() that dispatched STOP, the
\* playback is idle and that tick applied no waypoint.
C2_StopEndsPlayback ==
    (pc = "command" /\ handled /\ IsStop(lastLine))
        => (~currentPlayback.active /\ written = <<>>)

(***************************************************************************)
(* C3  STOP during a single-joint motion                                   *)
(***************************************************************************)
\* C3: a STOP dispatched while a motion is active and no playback is active
\* deactivates the motion in the same step and leaves jointPositions as they
\* were; and as long as STOP is the last line dispatched and no playback is
\* active, a tick changes nothing, prints nothing and writes to no servo.
C3_StopHaltsMotion ==
    [][/\ (DispatchStep /\ IsStop(lastLine')
              /\ currentMovement.active /\ ~currentPlayback.active)
           => (/\ ~currentMovement'.active
               /\ ~movementInProgress'
               /\ jointPositions' = jointPositions)
       /\ (TickStep /\ lastWasStop /\ ~currentPlayback.active)
           => (UNCHANGED progState /\ out' = <<>> /\ written' = <<>>)
      ]_vars

\* STOP has cut a motion short and both ticks have run since
C3_Witness ==
    /\ pc = "command"
    /\ handled
    /\ lastWasStop
    /\ ~currentPlayback.active
    /\ ~currentMovement.active
    /\ currentMovement.stepDirection # 0
    /\ currentMovement.currentAngle # currentMovement.targetAngle

(***************************************************************************)
(* C5  The interlock is a pulse                                            *)
(***************************************************************************)
\* C5: emergencyStop is false whenever processCommand has returned, and an
\* in-range J line dispatched next after STOP installs the motion it asks for.
C5_StopIsAPulse ==
    /\ [](~emergencyStop)
    /\ [][(DispatchStep /\ lastWasStop /\ InRangeJ(lastLine'))
            => (/\ currentMovement'.active
                /\ movementInProgress'
                /\ currentMovement'.jointIndex = JJoint(lastLine')
                /\ currentMovement'.targetAngle = toInt(JAngleText(lastLine')))
         ]_vars

\* an in-range J line has just been accepted right after a STOP
C5_Witness ==
    /\ pc = "motion"
    /\ handled
    /\ afterStop
    /\ InRangeJ(lastLine)
    /\ currentMovement.active

(***************************************************************************)
(* C8  A J command for the joint that is moving                            *)
(***************************************************************************)
\* C8: dispatching a J line for the joint whose motion is active prints
\* exactly one line, an ERROR line, writes to no servo and leaves the motion
\* state, the joint positions and the sequences unchanged.
C8_BusyRejected ==
    [][(DispatchStep /\ JJoint(lastLine') \in Joints
            /\ currentMovement.active
            /\ currentMovement.jointIndex = JJoint(lastLine'))
         => (/\ Len(out') = 1
             /\ out'[1].prefix = RESP_ERROR
             /\ written' = <<>>
             /\ UNCHANGED <<currentMovement, movementInProgress, jointPositions,
                            sequences>>)
      ]_vars

\* a J line for the moving joint has just been refused during a recording
C8_Witness ==
    /\ pc = "motion"
    /\ handled
    /\ isRecording
    /\ currentMovement.active
    /\ JJoint(lastLine) = currentMovement.jointIndex
    /\ out = <<ErrorLine("Joint already moving, wait for completion")>>

(***************************************************************************)
(* C6  An accepted move reaches its target, one degree per tick            *)
(***************************************************************************)
\* the pass of loop() that just dispatched a line dispatched STOP or a J line
Interrupted ==
    pc = "motion" /\ handled /\ (IsStop(lastLine) \/ startsWith(normalize(lastLine), "J"))

\* the motion last installed has ended with its joint on the target
MotionDone ==
    /\ ~currentMovement.active
    /\ currentMovement.jointIndex \in Joints
    /\ jointPositions[currentMovement.jointIndex] = currentMovement.targetAngle

\* C6: under fair scheduling an installed motion, unless STOP or a further J
\* line is dispatched, ends inactive with its joint exactly on the target;
\* and every tick that runs while the motion is active keeps the motion's
\* joint and target and moves jointPositions of that joint by at most one
\* degree, towards the target and never past it.
C6_MoveReachesTarget ==
    /\ currentMovement.active ~> (MotionDone \/ Interrupted)
    /\ [][(TickStep /\ currentMovement.active)
            => LET j == currentMovement.jointIndex
                   a == currentMovement.targetAngle
                   p == jointPositions[j]
                   q == jointPositions'[j]
               IN  /\ currentMovement'.jointIndex = j
                   /\ currentMovement'.targetAngle = a
                   /\ q - p \in {-1, 0, 1}
                   /\ IF p <= a THEN p <= q /\ q <= a ELSE a <= q /\ q <= p
         ]_vars

\* the motion tick has just put joint 1 on a target two degrees below home
C6_Witness ==
    /\ pc = "playback"
    /\ MotionDone
    /\ currentMovement.jointIndex = 0
    /\ currentMovement.targetAngle = HOME_POSITIONS[0] - 2
    /\ written = <<<<0, HOME_POSITIONS[0] - 2>>>>

(***************************************************************************)
(* C7  A move is not overridden by a J command for another joint           *)
(***************************************************************************)
\* a pass of loop() has just dispatched STOP
StopDispatched == pc = "motion" /\ handled /\ IsStop(lastLine)

\* C7: under fair scheduling, once a motion of joint j towards a is installed,
\* joint j eventually stands at a unless a STOP is dispatched, whatever J
\* lines for other joints are accepted meanwhile.
C7_NotOverridden ==
    \A m \in FairTargets :
        (currentMovement.active /\ currentMovement.jointIndex = m[1]
            /\ currentMovement.targetAngle = m[2])
          ~> (jointPositions[m[1]] = m[2] \/ StopDispatched)

(***************************************************************************)
(* C4  STOP while the blocking sketch is stepping a joint                  *)
(***************************************************************************)
\* C4: in the blocking sketch, once a STOP line has arrived while moveServo
\* was stepping a joint, that command writes the target angle of the move
\* being stepped to no servo: the move is halted before the target.
C4_StopInterruptsMove ==
    b_stopAt >= 0 =>
        \A i \in (b_stopAt + 1)..Len(b_written) :
            b_written[i] # <<b_move.jointIndex, b_move.targetAngle>>

(***************************************************************************)
(* C9  The blocking sketch refuses an angle outside the limits             *)
(***************************************************************************)
RECURSIVE DecimalFrom(_, _, _)
DecimalFrom(text, i, acc) ==
    IF i >= Len(text) THEN acc
    ELSE DecimalFrom(text, i + 1, acc * 10 + DigitValue(charAt(text, i)))

\* the number a string of decimal digits denotes
DecimalValue(text) == DecimalFrom(text, 0, 0)

\* a line Jj:a with j in 1..6 and a a decimal number outside the limits of j
OutOfRangeJ(line) ==
    /\ JJoint(line) \in Joints
    /\ Len(JAngleText(line)) > 0
    /\ allDigits(JAngleText(line))
    /\ \/ DecimalValue(JAngleText(line)) < JOINT_MIN[JJoint(line)]
       \/ DecimalValue(JAngleText(line)) > JOINT_MAX[JJoint(line)]

\* this step is loop() of the blocking sketch dispatching a line
BDispatchStep == b_pc = "loop" /\ b_stringComplete /\ b_pc' # "loop"

\* C9: when the blocking sketch dispatches a line Jj:a with a outside the
\* limits of joint j, it prints an ERROR line, starts no move, writes to no
\* servo and leaves jointPositions unchanged.
C9_LimitRefused ==
    [][(BDispatchStep /\ OutOfRangeJ(b_inputString))
         => (/\ b_pc' = "event"
             /\ Len(b_out') = 1
             /\ b_out'[1].prefix = RESP_ERROR
             /\ b_written' = <<>>
             /\ b_jointPositions' = b_jointPositions)
      ]_vars

(***************************************************************************)
(* C10  The SET_SPEED sketch refuses an angle outside the limits           *)
(***************************************************************************)
\* C10: when the SET_SPEED sketch dispatches a line Jj:a with a outside the
\* limits of joint j, it prints an ERROR line, writes to no servo and leaves
\* jointPositions unchanged.
C10_SpeedLimitRefused ==
    [][(s_cmdCount' = s_cmdCount + 1 /\ OutOfRangeJ(s_lastLine'))
         => (/\ Len(s_out') = 1
             /\ s_out'[1].prefix = RESP_ERROR
             /\ s_written' = <<>>
             /\ s_jointPositions' = s_jointPositions)
      ]_vars

(***************************************************************************)
(* C11  The prebuilt sequences of the choreography sketch and the limits   *)
(***************************************************************************)
PrebuiltCommands ==
    {CMD_PICK_SEQUENCE, CMD_PLACE_SEQUENCE, CMD_WAVE_SEQUENCE,
     CMD_INSPECT_SEQUENCE, CMD_DRAW_CIRCLE, CMD_RESET_SEQUENCE, CMD_FOLD}

WithinLimits(j, angle) == JOINT_MIN[j] <= angle /\ angle <= JOINT_MAX[j]

PoseWithinLimits(pose) == \A j \in Joints : WithinLimits(j, pose[j])

\* a step of the choreography sketch that dispatches a line
CDispatchStep == c_cmdCount' = c_cmdCount + 1

\* C11: in the choreography sketch, a prebuilt sequence started from a pose
\* within the joint limits commands only angles within
\* [JOINT_MIN[j], JOINT_MAX[j]] (every target handed to moveServo and every
\* angle written to a servo) and ends with every joint within its limits.
C11_PrebuiltWithinLimits ==
    [][(/\ CDispatchStep
        /\ normalize(c_lastLine') \in PrebuiltCommands
        /\ PoseWithinLimits(c_jointPositions))
       => /\ \A k \in 1..Len(c_targets') :
                WithinLimits(c_targets'[k][1], c_targets'[k][2])
          /\ \A k \in 1..Len(c_written') :
                WithinLimits(c_written'[k][1], c_written'[k][2])
          /\ PoseWithinLimits(c_jointPositions')]_vars

(***************************************************************************)
(* C12  What a recording stores for each J move                            *)
(***************************************************************************)
\* the slot being recorded is valid and has room for another waypoint
RecordingHasRoom ==
    /\ isRecording
    /\ currentRecordingSequence \in SequenceSlots
    /\ sequences[currentRecordingSequence].valid
    /\ sequences[currentRecordingSequence].length < MAX_SEQUENCE_LENGTH

\* C12: in the non-blocking sketch, a J move accepted during a recording
\* (the previous move finished, no playback running, room in the slot) adds
\* one waypoint to the slot, and that waypoint is the full pose reached
\* after the move: the pose before it with the commanded joint at its
\* target.  Playback applies the waypoints as stored, in recording order.
C12_RecordedPoseIsReached ==
    [][(/\ DispatchStep
        /\ InRangeJ(lastLine')
        /\ RecordingHasRoom
        /\ ~currentMovement.active
        /\ ~currentPlayback.active)
       => LET slot == currentRecordingSequence
              n == sequences[slot].length
          IN  /\ sequences'[slot].length = n + 1
              /\ sequences'[slot].points[n].joints =
                     [jointPositions EXCEPT
                         ![JJoint(lastLine')] = toInt(JAngleText(lastLine'))]
      ]_vars

(***************************************************************************)
(* C13  A waypoint is not applied before its delay has passed              *)
(***************************************************************************)
\* this step is the playback tick applying a waypoint
ApplyStep ==
    /\ pc = "playback"
    /\ pc' = "command"
    /\ currentPlayback.active
    /\ currentPlayback'.currentStep = currentPlayback.currentStep + 1

\* C13: in the non-blocking sketch, when the playback tick applies waypoint
\* k, at least points[k].delay_ms milliseconds have passed since waypoint
\* k-1 was applied (for k = 0: since the playback was started).
C13_WaypointNotBeforeDelay ==
    [][ApplyStep
       => msSinceLastStep >=
              sequences[currentPlayback.sequenceIndex]
                  .points[currentPlayback.currentStep].delay_ms
      ]_vars

\* a playback tick has just applied the first waypoint of slot 0
C13_Witness ==
    /\ pc = "command"
    /\ currentPlayback.active
    /\ currentPlayback.currentStep = 1
    /\ msSinceLastStep = 0
    /\ Len(written) = 6
    /\ sequences[0].points[0].delay_ms = MOVEMENT_INTERVAL

(***************************************************************************)
(* C14  A J command when the recording slot is full                        *)
(***************************************************************************)
\* the slot being recorded is valid and holds MAX_SEQUENCE_LENGTH points
RecordingIsFull ==
    /\ isRecording
    /\ currentRecordingSequence \in SequenceSlots
    /\ sequences[currentRecordingSequence].valid
    /\ sequences[currentRecordingSequence].length >= MAX_SEQUENCE_LENGTH

\* C14: in the non-blocking sketch, a J command accepted while the slot
\* being recorded already holds MAX_SEQUENCE_LENGTH points is answered with
\* an ERROR line (the capacity failure is reported, the waypoint is not
\* dropped silently), and the stored sequences are unchanged.
C14_FullSlotReported ==
    [][(/\ DispatchStep
        /\ InRangeJ(lastLine')
        /\ ~jointBusy(State, JJoint(lastLine'))
        /\ RecordingIsFull)
       => /\ \E k \in 1..Len(out') : out'[k].prefix = RESP_ERROR
          /\ sequences' = sequences
      ]_vars

(***************************************************************************)
(* C15  When PLAY_SEQUENCE starts a playback                               *)
(***************************************************************************)
\* the text after the first colon of a line, "" when there is no colon
SlotText(line) ==
    LET c == normalize(line)
    IN  IF indexOf(c, ":") = -1 THEN "" ELSE substringFrom(c, indexOf(c, ":") + 1)

\* a line PLAY_SEQUENCE:s with s a decimal number
IsPlayLine(line) ==
    /\ startsWith(normalize(line), CMD_PLAY_SEQUENCE \o ":")
    /\ Len(SlotText(line)) > 0
    /\ allDigits(SlotText(line))

\* C15: in the non-blocking sketch, PLAY_SEQUENCE:s is answered with an
\* ERROR line and leaves currentPlayback (active, slot, step index)
\* unchanged when s is out of range, slot s is invalid or empty, a
\* single-joint motion is active or a playback is active; otherwise the
\* playback becomes active on slot s with currentStep = 0.
C15_PlayStartsOrFails ==
    [][(DispatchStep /\ IsPlayLine(lastLine'))
       => LET slot == DecimalValue(SlotText(lastLine'))
          IN  IF \/ slot \notin SequenceSlots
                 \/ ~sequences[slot].valid
                 \/ sequences[slot].length = 0
                 \/ currentMovement.active
                 \/ currentPlayback.active
              THEN /\ \E k \in 1..Len(out') : out'[k].prefix = RESP_ERROR
                   /\ currentPlayback' = currentPlayback
              ELSE currentPlayback' =
                       [active |-> TRUE, sequenceIndex |-> slot, currentStep |-> 0]
      ]_vars

(***************************************************************************)
(* C16  A reused slot plays only what was recorded into it                 *)
(***************************************************************************)
\* this step is RECORD_START:slot:name being accepted
RecordStartStep(slot) ==
    /\ DispatchStep
    /\ startsWith(normalize(lastLine'), CMD_RECORD_START)
    /\ out' = <<OkLine("Recording started for sequence", <<slot>>)>>

\* the servo writes that apply a waypoint
PointWrites(point) == [k \in 1..6 |-> <<k - 1, point.joints[k - 1]>>]

\* C16: in the non-blocking sketch, an accepted RECORD_START:s:name (after
\* DELETE_SEQUENCE:s or not) leaves slot s valid with length 0; the length
\* of a slot then only grows by one, when an accepted J command stores the
\* current pose at the first free index, and the waypoints below the length
\* are never rewritten; and the playback tick applies only a waypoint below
\* the length of its slot.  So a playback of slot s applies only waypoints
\* recorded after the last RECORD_START:s, never one of the previous
\* occupant.
C16_ReusedSlotStartsEmpty ==
    [][/\ \A slot \in SequenceSlots :
             LET n == sequences[slot].length
                 m == sequences'[slot].length
             IN  /\ RecordStartStep(slot)
                        => (m = 0 /\ sequences'[slot].valid)
                 /\ \/ m = 0
                    \/ m = n
                    \/ /\ m = n + 1
                       /\ DispatchStep
                       /\ JJoint(lastLine') \in Joints
                       /\ sequences'[slot].points[n] =
                              [joints |-> jointPositions,
                               delay_ms |-> MOVEMENT_INTERVAL]
                 /\ \A k \in PointSlots :
                        (k < n /\ k < m)
                            => sequences'[slot].points[k] = sequences[slot].points[k]
       /\ ApplyStep
             => LET seq == sequences[currentPlayback.sequenceIndex]
                    k == currentPlayback.currentStep
                IN  /\ k < seq.length
                    /\ written' = PointWrites(seq.points[k])
                    /\ jointPositions' = seq.points[k].joints
      ]_vars

\* slot 0 was deleted or re-created, one waypoint was recorded at the home
\* pose and a playback has just applied it, while the storage of the slot
\* still holds the waypoints of the earlier recording
C16_Witness ==
    /\ pc = "command"
    /\ sequences[0].name = "B"
    /\ sequences[0].length = 1
    /\ sequences[0].points[0].joints = HOME_POSITIONS
    /\ sequences[0].points[1].joints = EarlierPose
    /\ currentPlayback.active
    /\ currentPlayback.sequenceIndex = 0
    /\ currentPlayback.currentStep = 1
    /\ written = PointWrites(sequences[0].points[0])
    /\ cmdCount = ReuseCommands

(***************************************************************************)
(* C17  One response line per command                                      *)
(***************************************************************************)
\* C17: in the non-blocking sketch, every dispatched command line (J, HOME,
\* STOP, STATUS, RECORD_START, RECORD_STOP, PLAY_SEQUENCE, DELETE_SEQUENCE
\* or unknown; LIST_SEQUENCES is not among them) produces exactly one
\* response line, and that line is prefixed OK: or ERROR:.
C17_OneResponseLine ==
    [][(DispatchStep /\ normalize(lastLine') # CMD_LIST_SEQUENCES)
       => /\ Len(out') = 1
          /\ out'[1].prefix \in {RESP_OK, RESP_ERROR}
      ]_vars

(***************************************************************************)
(* C18  A rejected command changes nothing                                 *)
(***************************************************************************)
\* C18: in the non-blocking sketch, a dispatched command other than STOP
\* that is answered with an ERROR line leaves the joint positions, the
\* motion state, the playback state, the recording state and all stored
\* sequences as they were, also while a recording is active.
C18_RejectedChangesNothing ==
    [][(/\ DispatchStep
        /\ ~IsStop(lastLine')
        /\ \E k \in 1..Len(out') : out'[k].prefix = RESP_ERROR)
       => UNCHANGED <<jointPositions, currentMovement, movementInProgress,
                      currentPlayback, isRecording, currentRecordingSequence,
                      sequences>>
      ]_vars

(***************************************************************************)
(* C19  RECORD_START and DELETE_SEQUENCE with a slot that is not a number  *)
(***************************************************************************)
\* the slot argument of a RECORD_START or DELETE_SEQUENCE line: the text
\* between the first colon and the second one (or the end of the line)
SlotArgument(line) ==
    LET rest == SlotText(line)
    IN  IF indexOf(rest, ":") = -1 THEN rest ELSE substring(rest, 0, indexOf(rest, ":"))

\* C19: in the non-blocking sketch, a RECORD_START or DELETE_SEQUENCE line
\* whose slot argument is empty or not all digits is answered with an ERROR
\* line and changes no sequence and no recording state.
C19_NonNumericSlotRejected ==
    [][(/\ DispatchStep
        /\ \/ startsWith(normalize(lastLine'), CMD_RECORD_START)
           \/ startsWith(normalize(lastLine'), CMD_DELETE_SEQUENCE)
        /\ \/ Len(SlotArgument(lastLine')) = 0
           \/ ~allDigits(SlotArgument(lastLine')))
       => /\ \E k \in 1..Len(out') : out'[k].prefix = RESP_ERROR
          /\ UNCHANGED <<sequences, isRecording, currentRecordingSequence>>
      ]_vars

(***************************************************************************)
(* C20  SET_SPEED accepts exactly the speeds from 5 to 200                 *)
(***************************************************************************)
\* a step of the SET_SPEED sketch that dispatches a line
SDispatchStep == s_cmdCount' = s_cmdCount + 1

\* a line SET_SPEED:v with v a decimal number
IsSetSpeedLine(line) ==
    /\ startsWith(normalize(line), CMD_SET_SPEED \o ":")
    /\ Len(SlotText(line)) > 0
    /\ allDigits(SlotText(line))

\* C20: in the SET_SPEED sketch, SET_SPEED:v sets MOVE_SPEED to v and
\* answers OK when 5 <= v <= 200; for any other v it answers with an ERROR
\* line and MOVE_SPEED keeps its value.
C20_SpeedSetWithinBounds ==
    [][(SDispatchStep /\ IsSetSpeedLine(s_lastLine'))
       => LET v == DecimalValue(SlotText(s_lastLine'))
          IN  IF 5 <= v /\ v <= 200
              THEN /\ s_MOVE_SPEED' = v
                   /\ s_out' = <<OkLine("Movement speed set to", <<v>>)>>
              ELSE /\ s_MOVE_SPEED' = s_MOVE_SPEED
                   /\ \E k \in 1..Len(s_out') : s_out'[k].prefix = RESP_ERROR
      ]_vars

(***************************************************************************)
(* C21  HOME, then STATUS                                                  *)
(***************************************************************************)
\* C21: in the non-blocking sketch, HOME dispatched while no single-joint
\* motion is active leaves all six jointPositions at HOME_POSITIONS; while
\* HOME is the last line dispatched and no motion is active the pose stays
\* there; and STATUS reports the pose it finds.  So a STATUS that follows
\* such a HOME reports the home pose.
C21_HomeThenStatus ==
    [][/\ (DispatchStep /\ normalize(lastLine') = CMD_HOME /\ ~currentMovement.active)
             => jointPositions' = HOME_POSITIONS
       /\ (/\ TickStep
           /\ normalize(prevLine) = CMD_HOME
           /\ ~currentMovement.active
           /\ jointPositions = HOME_POSITIONS)
             => jointPositions' = HOME_POSITIONS
       /\ (DispatchStep /\ normalize(lastLine') = CMD_STATUS)
             => /\ Len(out') = 1
                /\ out'[1].prefix = RESP_OK
                /\ SubSeq(out'[1].args, 1, 6) = [i \in 1..6 |-> jointPositions[i - 1]]
      ]_vars

(***************************************************************************)
(* C22  A prebuilt sequence sent while another one runs                    *)
(***************************************************************************)
\* the dispatch of the line the host sent while the last command, a prebuilt
\* sequence, was running
BusyPrebuiltStep ==
    /\ CDispatchStep
    /\ normalize(c_lastLine) \in PrebuiltCommands
    /\ c_sentDuring # ""
    /\ c_lastLine' = c_sentDuring
    /\ normalize(c_sentDuring) \in PrebuiltCommands

\* C22: in the choreography sketch a prebuilt sequence sent while another
\* prebuilt sequence is running is answered with the "Movement in progress"
\* error and is not run: no servo is written for it.
C22_BusySequenceRefused ==
    [][BusyPrebuiltStep
         => /\ c_out' = <<Line(RESP_ERROR, "Movement in progress, cannot start sequence", <<>>)>>
            /\ c_written' = <<>>
            /\ c_jointPositions' = c_jointPositions]_vars

(***************************************************************************)
(* C23  The waypoint the playback tick reads                               *)
(***************************************************************************)
\* a playback tick that gets past the returns of lines 408-417 and reads
\* points[currentStep].delay_ms in line 420
ReadingTick ==
    /\ pc = "playback"
    /\ pc' = "command"
    /\ currentPlayback.active
    /\ ~emergencyStop
    /\ ~currentMovement.active

\* C23: in the non-blocking sketch the playback tick never reads a waypoint
\* at an index >= the length of the sequence it plays, nor at an index
\* >= MAX_SEQUENCE_LENGTH, the tick that detects completion included.
C23_ReadsWithinSequence ==
    [][ReadingTick
         => /\ currentPlayback.currentStep < sequences[currentPlayback.sequenceIndex].length
            /\ currentPlayback.currentStep < MAX_SEQUENCE_LENGTH]_vars

(***************************************************************************)
(* C24  The playback tick during a single-joint motion                     *)
(***************************************************************************)
\* a playback tick of an active playback, run while a motion is active
HeldTick ==
    /\ pc = "playback"
    /\ pc' = "command"
    /\ currentPlayback.active
    /\ currentMovement.active
    /\ ~emergencyStop

\* C24: in the non-blocking sketch the playback tick does nothing while a
\* single-joint motion is active: currentStep does not advance, no waypoint
\* is applied and nothing is written or printed.
C24_PlaybackWaitsForMotion ==
    [][HeldTick
         => /\ currentPlayback' = currentPlayback
            /\ jointPositions' = jointPositions
            /\ written' = <<>>
            /\ out' = <<>>]_vars

\* a tick has just left alone a waypoint that was due, a motion being active
C24_Witness ==
    /\ pc = "command"
    /\ currentPlayback.active
    /\ currentMovement.active
    /\ ~emergencyStop
    /\ currentPlayback.currentStep < sequences[currentPlayback.sequenceIndex].length
    /\ msSinceLastStep >=
           sequences[currentPlayback.sequenceIndex].points[currentPlayback.currentStep].delay_ms

(***************************************************************************)
(* C25  A playback runs to its end                                         *)
(***************************************************************************)
\* the last line dispatched is STOP, DELETE_SEQUENCE or RECORD_START
Disturbed ==
    \/ normalize(prevLine) = CMD_STOP
    \/ startsWith(normalize(prevLine), CMD_DELETE_SEQUENCE)
    \/ startsWith(normalize(prevLine), CMD_RECORD_START)

C26_OneCommandPerLine ==
    [][BDispatchStep => b_command' \in BlockingLines]_vars

(***************************************************************************)
(* C27  The pose recorded when a stepping loop is interrupted              *)
(***************************************************************************)
\* the angle written last to joint j by the command under way; the joint's
\* recorded position when the command has not written to it
LastWritten(j) ==
    LET writes == {i \in 1..Len(b_written) : b_written[i][1] = j}
    IN  IF writes = {} THEN b_jointPositions[j]
        ELSE b_written[CHOOSE i \in writes : \A k \in writes : k <= i][2]

\* the pass of a stepping loop that finds emergencyStop set and leaves the loop
InterruptedStep ==
    /\ b_pc = "step"
    /\ b_emergencyStop
    /\ b_move' = b_move
    /\ b_jointPositions' # b_jointPositions \/ b_pc' # "step"

C28_MotionExcludesPlayback == ~(currentMovement.active /\ currentPlayback.active)

(***************************************************************************)
(* C29  The slot being recorded                                            *)
(***************************************************************************)
\* C29: in the non-blocking sketch, whenever isRecording is true the slot
\* currentRecordingSequence is a valid sequence, so that an accepted J
\* command appends a waypoint to it unless it is full.
C29_RecordingSlotValid ==
    isRecording =>
        /\ currentRecordingSequence \in SequenceSlots
        /\ sequences[currentRecordingSequence].valid

(***************************************************************************)
(* C30  DELETE_SEQUENCE of the slot being played back                      *)
(***************************************************************************)
\* the slot being played back has been deleted and not been created again
PlayingDeleted ==
    /\ currentPlayback.active
    /\ ~sequences[currentPlayback.sequenceIndex].valid

C31_StopKeepsPoseAndSequences ==
    [][(DispatchStep /\ normalize(lastLine') = CMD_STOP)
         => /\ jointPositions' = jointPositions
            /\ sequences' = sequences
            /\ written' = <<>>
            /\ currentMovement' = [currentMovement EXCEPT !.active = FALSE]
            /\ ~movementInProgress'
            /\ ~isRecording'
            /\ ~emergencyStop'
            /\ currentRecordingSequence' = currentRecordingSequence
            /\ currentPlayback' = currentPlayback]_vars

\* STOP has just interrupted a move away from the home pose during a
\* recording that holds a waypoint
C31_Witness ==
    /\ pc = "motion"
    /\ handled
    /\ normalize(lastLine) = CMD_STOP
    /\ jointPositions # HOME_POSITIONS
    /\ jointPositions[currentMovement.jointIndex] # currentMovement.targetAngle
    /\ ~currentMovement.active
    /\ ~isRecording
    /\ sequences[0].valid
    /\ sequences[0].length > 0

(***************************************************************************)
(* C32  The time between two steps of the motion engine                    *)
(***************************************************************************)
\* the motion tick writes an angle to a servo
MotionWrite == pc = "motion" /\ pc' = "playback" /\ written' # <<>>

\* C32: in the non-blocking sketch a servo step of the motion engine comes
\* at least MOVEMENT_INTERVAL ms after the step before it, whether the two
\* belong to one motion or the earlier one ended a motion and the later one
\* begins the next.
C32_StepsAnIntervalApart ==
    [][MotionWrite => msSinceMotionStep >= MOVEMENT_INTERVAL]_vars

\* a motion has just taken its first step, the motion before it having taken
\* its last one MOVEMENT_INTERVAL ms ago or later, within the clock's range
C32_Witness ==
    /\ pc = "playback"
    /\ written # <<>>
    /\ msSinceMotionStep = 0
    /\ cmdCount >= 2
    /\ written = <<<<1, HOME_POSITIONS[1]>>>>
    /\ jointPositions[0] # HOME_POSITIONS[0]

(***************************************************************************)
(* C33  A recording session without moves                                  *)
(***************************************************************************)
\* the normalised line dispatches a J command or a DELETE_SEQUENCE command
JOrDelete(command) ==
    \/ startsWith(command, CMD_JOINT_PREFIX)
    \/ startsWith(command, CMD_DELETE_SEQUENCE)

\* the slot is valid and holds no waypoint
EmptyValid(seqs, slot) == seqs[slot].valid /\ seqs[slot].length = 0

\* C33: in the non-blocking sketch an accepted RECORD_START:s:name leaves
\* slot s valid with length 0; the slot stays so through every step that
\* dispatches neither a J command nor DELETE_SEQUENCE; RECORD_STOP changes no
\* sequence and ends the recording (a dispatch that changes a sequence or
\* leaves isRecording set is not RECORD_STOP); and LIST_SEQUENCES prints a
\* line for exactly the valid slots.  So after an
\* accepted RECORD_START and RECORD_STOP with no J and no DELETE_SEQUENCE in
\* between, slot s is valid, has length 0 and is listed.
C33_EmptyRecordingIsKept ==
    [][/\ \A slot \in SequenceSlots :
             /\ (/\ DispatchStep
                 /\ out' = <<OkLine("Recording started for sequence", <<slot>>)>>
                 /\ startsWith(normalize(lastLine'), CMD_RECORD_START))
                    => EmptyValid(sequences', slot)
             /\ (EmptyValid(sequences, slot) /\ ~EmptyValid(sequences', slot))
                    => DispatchStep /\ JOrDelete(normalize(lastLine'))
       /\ (DispatchStep /\ (sequences' # sequences \/ isRecording'))
              => normalize(lastLine') # CMD_RECORD_STOP
       /\ (DispatchStep /\ normalize(lastLine') = CMD_LIST_SEQUENCES)
              => \A slot \in SequenceSlots :
                     sequences[slot].valid
                         <=> \E k \in 1..Len(out') :
                                 out'[k] = Line("", sequences[slot].name, <<slot>>)
      ]_vars

\* RECORD_START:0:A, RECORD_STOP, LIST_SEQUENCES have been dispatched in
\* this order, and the list names slot 0
C33_Witness ==
    /\ pc = "motion"
    /\ handled
    /\ normalize(lastLine) = CMD_LIST_SEQUENCES
    /\ cmdCount = 3
    /\ ~afterStop
    /\ ~isRecording
    /\ EmptyValid(sequences, 0)
    /\ out = <<Line(RESP_SEQUENCE, "", <<>>), Line("", "A", <<0>>)>>

EmergencyLines ==
    {ErrorLine("Emergency stop active"),
     ErrorLine("Sequence playback stopped by emergency")}

\* C35: in the non-blocking sketch emergencyStop is false whenever
\* updateServoMovement or updateSequencePlayback runs, and neither tick
\* prints an emergency-stop line.
C35_TicksNeverSeeStop ==
    [][TickStep
         => /\ ~emergencyStop
            /\ \A k \in 1..Len(out') : out'[k] \notin EmergencyLines]_vars

\* both ticks have run in the pass that dispatched STOP during a playback,
\* and the playback is still active
C35_Witness ==
    /\ pc = "command"
    /\ handled
    /\ normalize(lastLine) = CMD_STOP
    /\ currentPlayback.active
    /\ ~emergencyStop

(***************************************************************************)
(* C36  Playing a recording back retraces the recorded poses               *)
(***************************************************************************)
\* PLAY_SEQUENCE on slot k has just been dispatched
PlayedSlot(k) ==
    /\ p_cmdCount' = p_cmdCount + 1
    /\ normalize(p_lastLine') = "PLAY_SEQUENCE:" \o <<"0", "1">>[k + 1]

\* C36: in the blocking sequence sketch, when PLAY_SEQUENCE is dispatched on
\* a slot into which n accepted J moves were recorded, 1 <= n <=
\* MAX_SEQUENCE_LENGTH, the poses the arm reaches at the waypoints are the n
\* recorded post-move poses in recording order, and jointPositions ends
\* equal to the last recorded pose.
C36_PlaybackRetracesRecording ==
    [][\A k \in {0, 1} :
          (/\ PlayedSlot(k)
           /\ Len(p_recorded[k]) \in 1..p_MAX_SEQUENCE_LENGTH)
          => /\ p_poses' = p_recorded[k]
             /\ p_jointPositions' = p_recorded[k][Len(p_recorded[k])]]_vars

\* a recording of two different poses has just been played back
C36_Witness ==
    /\ p_lastLine = "PLAY_SEQUENCE:0"
    /\ Len(p_recorded[0]) = 2
    /\ p_recorded[0][1] # p_recorded[0][2]
    /\ p_poses = p_recorded[0]

(***************************************************************************)
(* C37  Recording into a slot or deleting it leaves the other slots alone  *)
(***************************************************************************)
\* the slot argument of the line is the decimal numeral of slot a
NamesSlot(line, a) ==
    LET text == SlotArgument(line)
    IN  Len(text) > 0 /\ allDigits(text) /\ DecimalValue(text) = a

\* the command just dispatched records into slot a or deletes slot a: a
\* RECORD_START or DELETE_SEQUENCE that names a or is answered for a, or a J
\* command while the recording session is on a
ActsOnSlot(a) ==
    /\ DispatchStep
    /\ \/ /\ startsWith(normalize(lastLine'), CMD_RECORD_START)
          /\ \/ NamesSlot(lastLine', a)
             \/ out' = <<OkLine("Recording started for sequence", <<a>>)>>
       \/ /\ startsWith(normalize(lastLine'), CMD_DELETE_SEQUENCE)
          /\ \/ NamesSlot(lastLine', a)
             \/ out' = <<OkLine("Sequence deleted", <<a>>)>>
       \/ /\ startsWith(normalize(lastLine'), CMD_JOINT_PREFIX)
          /\ isRecording
          /\ currentRecordingSequence = a

\* C37: in the non-blocking sketch, a command that records into slot a
\* (RECORD_START on a, or a J command of the session on a) or deletes slot a
\* leaves the name, points, length and valid flag of every other slot b as
\* they were.
C37_OtherSlotsUntouched ==
    [][\A a \in SequenceSlots : \A b \in SequenceSlots \ {a} :
          ActsOnSlot(a) => sequences'[b] = sequences[b]]_vars

\* slot 0 holds a full recording and a J move has just been recorded into
\* slot 1
C37_Witness ==
    /\ pc = "motion"
    /\ startsWith(lastLine, CMD_JOINT_PREFIX)
    /\ isRecording
    /\ currentRecordingSequence = 1
    /\ sequences[1].length = 1
    /\ sequences[0].valid
    /\ sequences[0].length = MAX_SEQUENCE_LENGTH

====
